---- MODULE Spec2Model ----
(***************************************************************************)
(* Verification model of the circuit-rotation logic of tor_ip_changer.     *)
(*                                                                         *)
(* The programs of the repository are modelled as state machines, each with *)
(* its own specification:                                                  *)
(*   SpecChanger     torip_changer.py            class TorIpChanger        *)
(*   Spec, FairSpec  tor_ip_changer.py           change_ip and its thread  *)
(*   SpecSimplified  tor_ip_changer_simplified.py thread management        *)
(*   SpecThreads     tor_ip_changer.py           menu, changer, monitor    *)
(*   SpecLookup      the address and geolocation lookups, get_tor_ip       *)
(*   SpecHost        tor_ip_changer.py           files, restart of Tor     *)
(*   FairLoops       the background loops and run(), with fairness         *)
(* External parties (the control endpoint, the address services, the       *)
(* service manager, the operator pressing Ctrl+C) are nondeterministic.    *)
(* Time is counted in whole seconds.                                       *)
(***************************************************************************)
EXTENDS Integers, Sequences, FiniteSets, TLC

Max(a, b) == IF a >= b THEN a ELSE b
Min(a, b) == IF a <= b THEN a ELSE b

(***************************************************************************)
(* Bounds of the model.                                                    *)
(***************************************************************************)
\* largest constructor argument tried for min_interval / max_interval
MaxArg == 11
\* longest time (s) an external call takes or a sleep oversleeps in the model
MaxOpTime == 1
\* wall-clock reading when the TorIpChanger object is constructed
StartTime == 20
\* the TorIpChanger model stops advancing time this many seconds after StartTime
Horizon == 26

(***************************************************************************)
(* Program constants.                                                      *)
(***************************************************************************)
\* torip_changer.py: "if since_last < 10" / "max(10, int(min_interval))"
NEWNYM_MIN_GAP == 10
DEFAULT_SYS_SOCKS_PORT == 9050
DEFAULT_SYS_CTRL_PORT == 9051
DEFAULT_USER_SOCKS_PORT == 9150
DEFAULT_USER_CTRL_PORT == 9151

VARIABLES
    \* ---- torip_changer.py: TorIpChanger fields ----
    min_interval, max_interval, running, change_count, last_newnym_ts,
    socks_port, control_port, tor_proxy, tor_proc,
    \* ---- torip_changer.py: execution state ----
    now,          \* time.time()
    tpc,          \* position of the thread using the TorIpChanger object
    tmode,        \* "direct": change_ip called by the user of the class; "run": by run()
    handlers,     \* setup_signal_handling() has installed exit_gracefully
    wakeAt,       \* end of the time.sleep in progress
    interval,     \* the interval run() drew last
    ci_result,    \* what the last change_ip call returned ("none" before any)
    \* ---- torip_changer.py: observers ----
    sigPrev, sigLast,   \* instants of the last two NEWNYM signals sent (-1: none)
    ci_waited,          \* the last change_ip call slept for the rate limit
    run_ip,             \* the address run() resolved last (initial_ip, then new_ip)
    stopAtWait,         \* exit_gracefully ran while a wait was in progress
    connAfterStop,      \* a control connection was opened after such a stop
    ensured,            \* what ensure_tor_running returned ("none" before), and
                        \* whether it had found the system Tor usable
    \* ---- tor_ip_changer.py: module globals ----
    stop_threads, ip_changer_thread, ip_changes, current_ip, ip_history, history_file,
    \* ---- tor_ip_changer.py: execution state ----
    mode,          \* how the program was started: "change" (--change) or "menu"
    mpc,           \* position of the main thread
    lpc,           \* position of the thread running ip_changer_loop
    interval_min, interval_max,   \* arguments of ip_changer_loop
    waitLeft,      \* iterations left of the one-second wait loop in progress
    ci,            \* the change_ip call in progress: executing thread, position, locals
    \* ---- tor_ip_changer.py: observers ----
    obs,           \* what the change_ip call in progress has done so far
    sinceSignal    \* seconds slept since the last new-circuit signal (10 stands for >= 10)

changerVars == << min_interval, max_interval, running, change_count, last_newnym_ts,
                  socks_port, control_port, tor_proxy, ensured, tor_proc, now, tpc, tmode, handlers,
                  wakeAt, interval, ci_result, sigPrev, sigLast, ci_waited,
                  run_ip, stopAtWait, connAfterStop >>

suiteVars == << stop_threads, ip_changer_thread, ip_changes, current_ip, ip_history, history_file,
                mode, mpc, lpc, interval_min, interval_max, waitLeft, ci, obs,
                sinceSignal >>

\* tor_ip_changer_simplified.py: the module globals and its threads
VARIABLES
    simp_stop_threads,        \* stop_threads (line 44)
    simp_ip_changer_thread,   \* ip_changer_thread (line 45): 0 for None, else a worker
    simp_ip_monitor_thread,   \* ip_monitor_thread: "None" or "thread"
    simp_workers,             \* every ip_changer_worker thread ever started
    simp_monitor,             \* where the ip_monitor_worker thread is
    simp_main,                \* where the main thread is
    simp_ret                  \* what the last start_/stop_ call of the main thread returned

simplifiedVars == << simp_stop_threads, simp_ip_changer_thread, simp_ip_monitor_thread,
                     simp_workers, simp_monitor, simp_main, simp_ret >>

\* tor_ip_changer.py: the menu thread, the changer threads and the monitor thread
VARIABLES
    thr_stop_threads,         \* stop_threads (line 61)
    thr_ip_changer_thread,    \* ip_changer_thread (line 62): 0 for None, else a thread
    thr_ip_monitor_thread,    \* ip_monitor_thread (line 63): "None" or "thread"
    thr_current_ip,           \* current_ip (line 67)
    thr_exit_ip,              \* the exit address Tor uses at this moment
    thr_changers,             \* every ip_changer_loop thread ever started
    thr_monitor,              \* the monitor_ip_loop thread: its position and locals
    thr_last,                 \* the last start_/stop_ call of the menu thread, and
                              \* what the stop_ calls have asked for
    thr_race                  \* what has been observed of the writes of current_ip
                              \* and of the records appended to ip_history

threadsVars == << thr_stop_threads, thr_ip_changer_thread, thr_ip_monitor_thread,
                  thr_current_ip, thr_exit_ip, thr_changers, thr_monitor, thr_last,
                  thr_race >>

\* the address and geolocation lookups, applied to the answers of the services
VARIABLES
    lk_call,                  \* the function applied last
    lk_pc,                    \* "idle", the position of get_ip_details, "returned"
    lk_responses,             \* the answers the services gave to get_current_ip
    lk_ip,                    \* what get_current_ip returned (the ip of get_ip_details)
    lk_geo,                   \* the answers the geolocation services gave
    lk_details,               \* what get_ip_details returned
    lk_tor_ip                 \* torip_checker.py, get_tor_ip: the answers to the
                              \* requests through each port, the ports used in
                              \* order, and what it returned

lookupVars == << lk_call, lk_pc, lk_responses, lk_ip, lk_geo, lk_details, lk_tor_ip >>

\* tor_ip_changer.py on its host: the files it writes and removes, and the
\* service it restarts
VARIABLES
    host_pc,                  \* "idle", or "chmod": setup_tor_password before line 123
    host_files,               \* per path: whether it exists, its mode, its content
    host_setups,              \* calls of setup_tor_password so far
    host_last,                \* the operation that ran last
    host_restart              \* the last restart_tor_service call: the host, the result

hostVars == << host_pc, host_files, host_setups, host_last, host_restart >>

vars == << changerVars, suiteVars, simplifiedVars, threadsVars, lookupVars, hostVars >>

\* what the actions of one program leave alone: the other programs
outsideChanger == << suiteVars, simplifiedVars, threadsVars, lookupVars, hostVars >>
outsideSuite == << changerVars, simplifiedVars, threadsVars, lookupVars, hostVars >>
outsideSimplified == << changerVars, suiteVars, threadsVars, lookupVars, hostVars >>
outsideThreads == << changerVars, suiteVars, simplifiedVars, lookupVars, hostVars >>
outsideLookup == << changerVars, suiteVars, simplifiedVars, threadsVars, hostVars >>
outsideHost == << changerVars, suiteVars, simplifiedVars, threadsVars, lookupVars >>

(***************************************************************************)
(* torip_changer.py : class TorIpChanger                                   *)
(***************************************************************************)
ArgValues == {-1, 5, NEWNYM_MIN_GAP, MaxArg}

\* int(x) of an integer argument
IntOf(x) == x

\* a constructor that keeps the argument as it is
ClampMinNoFloor(a) == IntOf(a)

\* self.min_interval = max(10, int(min_interval))
ClampMin(a) == Max(NEWNYM_MIN_GAP, IntOf(a))

\* self.max_interval = max(self.min_interval, int(max_interval))
ClampMax(lo, b) == Max(lo, IntOf(b))

\* a rate-limit check that never sleeps
RateLimitNoWait(t, last) == 0

\* change_ip, lines 298-304: the remaining wait; 0 when no sleep is made
RateLimitWait(t, last) ==
    LET since_last == t - last
    IN  IF since_last < NEWNYM_MIN_GAP
        THEN (IF NEWNYM_MIN_GAP - since_last > 0 THEN NEWNYM_MIN_GAP - since_last ELSE 0)
        ELSE 0

\* time an external call may take

OpTimes == 0..MaxOpTime
Deadline == StartTime + Horizon

InitChanger ==
    /\ \E a \in ArgValues, b \in ArgValues :
          /\ min_interval = ClampMin(a)
          /\ max_interval = ClampMax(ClampMin(a), b)
    \* __init__, lines 246-251: "control_port or DEFAULT_SYS_CTRL_PORT"; the
    \* arguments are None, or a pair of ports of the caller's own (0 for None)
    /\ \E ports \in {<< 0, 0 >>, << 9250, 9251 >>} :
          /\ socks_port = (IF ports[1] # 0 THEN ports[1] ELSE DEFAULT_SYS_SOCKS_PORT)
          /\ control_port = (IF ports[2] # 0 THEN ports[2] ELSE DEFAULT_SYS_CTRL_PORT)
    \* tor_proxy: the port the proxy URLs name
    /\ tor_proxy = socks_port
    /\ ensured = [ret |-> "none", verified |-> FALSE]
    /\ running = TRUE
    /\ change_count = 0
    /\ last_newnym_ts = 0
    /\ tor_proc = "none"
    /\ now = StartTime
    /\ tpc = "idle"
    /\ tmode = "direct"
    /\ handlers = FALSE
    /\ wakeAt = 0
    /\ interval = 0
    /\ ci_result = "none"
    /\ sigPrev = -1
    /\ sigLast = -1
    /\ ci_waited = FALSE
    /\ run_ip = "None"
    /\ stopAtWait = FALSE
    /\ connAfterStop = FALSE

\* the TorIpChanger program while another program is checked
ParkedChanger ==
    /\ min_interval = NEWNYM_MIN_GAP /\ max_interval = NEWNYM_MIN_GAP
    /\ control_port = DEFAULT_SYS_CTRL_PORT /\ socks_port = DEFAULT_SYS_SOCKS_PORT
    /\ tor_proxy = DEFAULT_SYS_SOCKS_PORT /\ ensured = [ret |-> "none", verified |-> FALSE]
    /\ running = TRUE /\ change_count = 0 /\ last_newnym_ts = 0
    /\ tor_proc = "none" /\ now = StartTime /\ tpc = "idle" /\ tmode = "direct"
    /\ handlers = FALSE /\ wakeAt = 0 /\ interval = 0 /\ ci_result = "none"
    /\ sigPrev = -1 /\ sigLast = -1 /\ ci_waited = FALSE /\ run_ip = "None" /\ stopAtWait = FALSE /\ connAfterStop = FALSE

\* change_ip returns res to whoever called it
ChangeIpReturn(res) ==
    /\ ci_result' = (IF res THEN "True" ELSE "False")
    /\ IF tmode = "run"
       THEN /\ tpc' = (IF res THEN "run_settle" ELSE "run_loop")
            /\ UNCHANGED stopAtWait
       ELSE /\ tpc' = "idle"
            /\ stopAtWait' = FALSE

\* setup_signal_handling(), called by the user of the class
SetupSignalHandling ==
    /\ tpc = "idle"
    /\ ~handlers
    /\ handlers' = TRUE
    /\ UNCHANGED << outsideChanger, run_ip >>
    /\ UNCHANGED << min_interval, max_interval, running, change_count, last_newnym_ts,
                    socks_port, control_port, tor_proxy, ensured, tor_proc, now, tpc, tmode, wakeAt,
                    interval, ci_result, sigPrev, sigLast, ci_waited, stopAtWait, connAfterStop >>

\* exit_gracefully(signum, frame): SIGINT / SIGTERM delivered at any point
ExitGracefully ==
    /\ handlers
    /\ running
    /\ tpc # "exited"
    /\ running' = FALSE
    /\ stopAtWait' = (stopAtWait \/ tpc \in {"ci_wait", "run_wait"})
    /\ UNCHANGED << outsideChanger, run_ip >>
    /\ UNCHANGED << min_interval, max_interval, change_count, last_newnym_ts,
                    socks_port, control_port, tor_proxy, ensured, tor_proc, now, tpc, tmode, handlers,
                    wakeAt, interval, ci_result, sigPrev, sigLast, ci_waited, connAfterStop >>

\* the user of the class calls change_ip() (some time after the previous call)
CallChangeIp ==
    /\ tpc = "idle"
    /\ \E d \in OpTimes :
          /\ now + d <= Deadline
          /\ now' = now + d
    /\ tpc' = "ci_begin"
    /\ UNCHANGED << outsideChanger, run_ip >>
    /\ UNCHANGED << min_interval, max_interval, running, change_count, last_newnym_ts,
                    socks_port, control_port, tor_proxy, ensured, tor_proc, tmode, handlers, wakeAt,
                    interval, ci_result, sigPrev, sigLast, ci_waited, stopAtWait, connAfterStop >>

\* change_ip, lines 297-304: the rate-limit check
ChangeIpBegin ==
    /\ tpc = "ci_begin"
    /\ LET wait == RateLimitWait(now, last_newnym_ts)
       IN  IF wait > 0
           THEN /\ tpc' = "ci_wait"
                /\ wakeAt' = now + wait
                /\ ci_waited' = TRUE
           ELSE /\ tpc' = "ci_connect"
                /\ ci_waited' = FALSE
                /\ UNCHANGED wakeAt
    /\ UNCHANGED << outsideChanger, run_ip >>
    /\ UNCHANGED << min_interval, max_interval, running, change_count, last_newnym_ts,
                    socks_port, control_port, tor_proxy, ensured, tor_proc, now, tmode, handlers,
                    interval, ci_result, sigPrev, sigLast, stopAtWait, connAfterStop >>

\* change_ip, line 304: time.sleep(wait) ends (a signal handler does not cut it short)
ChangeIpWake ==
    /\ tpc = "ci_wait"
    /\ \E d \in OpTimes :
          /\ wakeAt + d <= Deadline
          /\ now' = wakeAt + d
    /\ tpc' = "ci_connect"
    /\ UNCHANGED << outsideChanger, run_ip >>
    /\ UNCHANGED << min_interval, max_interval, running, change_count, last_newnym_ts,
                    socks_port, control_port, tor_proxy, ensured, tor_proc, tmode, handlers, wakeAt,
                    interval, ci_result, sigPrev, sigLast, ci_waited, stopAtWait, connAfterStop >>

\* change_ip, line 306: Controller.from_port
ChangeIpConnect ==
    /\ tpc = "ci_connect"
    /\ connAfterStop' = (connAfterStop \/ stopAtWait)
    /\ \E d \in OpTimes :
          /\ now + d <= Deadline
          /\ now' = now + d
    /\ \/ /\ tpc' = "ci_auth"
          /\ UNCHANGED << ci_result, stopAtWait >>
       \/ ChangeIpReturn(FALSE)          \* stem.SocketError
    /\ UNCHANGED << outsideChanger, run_ip >>
    /\ UNCHANGED << min_interval, max_interval, running, change_count, last_newnym_ts,
                    socks_port, control_port, tor_proxy, ensured, tor_proc, tmode, handlers, wakeAt,
                    interval, sigPrev, sigLast, ci_waited >>

\* change_ip, lines 308-316: authenticate(), then the cookie file of the data directory
ChangeIpAuth ==
    /\ tpc = "ci_auth"
    /\ \/ /\ tpc' = "ci_signal"          \* authenticate() succeeded
          /\ UNCHANGED << ci_result, stopAtWait >>
       \/ /\ tpc' = "ci_auth_cookie"     \* AuthenticationFailure, cookie file exists
          /\ UNCHANGED << ci_result, stopAtWait >>
       \/ ChangeIpReturn(FALSE)          \* AuthenticationFailure re-raised, or another error
    /\ UNCHANGED << outsideChanger, run_ip >>
    /\ UNCHANGED << min_interval, max_interval, running, change_count, last_newnym_ts,
                    socks_port, control_port, tor_proxy, ensured, tor_proc, now, tmode, handlers, wakeAt,
                    interval, sigPrev, sigLast, ci_waited, connAfterStop >>

\* change_ip, line 314: authenticate(cookie_path=...)
ChangeIpAuthCookie ==
    /\ tpc = "ci_auth_cookie"
    /\ \/ /\ tpc' = "ci_signal"
          /\ UNCHANGED << ci_result, stopAtWait >>
       \/ ChangeIpReturn(FALSE)
    /\ UNCHANGED << outsideChanger, run_ip >>
    /\ UNCHANGED << min_interval, max_interval, running, change_count, last_newnym_ts,
                    socks_port, control_port, tor_proxy, ensured, tor_proc, now, tmode, handlers, wakeAt,
                    interval, sigPrev, sigLast, ci_waited, connAfterStop >>

\* change_ip, lines 318-321: controller.signal(Signal.NEWNYM), then the timestamp
ChangeIpSignal ==
    /\ tpc = "ci_signal"
    /\ \/ /\ sigPrev' = sigLast
          /\ sigLast' = now
          /\ \E d \in OpTimes :
                /\ now + d <= Deadline
                /\ now' = now + d
          /\ last_newnym_ts' = now'
          /\ ChangeIpReturn(TRUE)
       \/ /\ ChangeIpReturn(FALSE)       \* the signal call raised: nothing was signalled
          /\ UNCHANGED << sigPrev, sigLast, now, last_newnym_ts >>
    /\ UNCHANGED << outsideChanger, run_ip >>
    /\ UNCHANGED << min_interval, max_interval, running, change_count,
                    socks_port, control_port, tor_proxy, ensured, tor_proc, tmode, handlers, wakeAt,
                    interval, ci_waited, connAfterStop >>

\* run(), lines 471-475: setup_signal_handling(), then ensure_tor_running()
CallRun ==
    /\ tpc = "idle"
    /\ ci_result = "none"
    /\ handlers' = TRUE
    /\ tmode' = "run"
    /\ tpc' = "run_ensure"
    /\ UNCHANGED << outsideChanger, run_ip >>
    /\ UNCHANGED << min_interval, max_interval, running, change_count, last_newnym_ts,
                    socks_port, control_port, tor_proxy, ensured, tor_proc, now, wakeAt, interval,
                    ci_result, sigPrev, sigLast, ci_waited, stopAtWait, connAfterStop >>

\* a test that looks at the service only
UseSystemTorIfActive(sys_active, sys_socks_ok, sys_ctrl_ok) == sys_active

\* ensure_tor_running(), line 396: the test that selects the system Tor
UseSystemTor(sys_active, sys_socks_ok, sys_ctrl_ok) ==
    sys_active /\ sys_socks_ok /\ sys_ctrl_ok

\* ensure_tor_running(), lines 385-455, and the "if not" of run(), lines 473-475.
\* auth: controller.authenticate() of lines 404-406; launch: what becomes of the
\* local instance (Popen succeeded and the ports opened; Popen succeeded and the
\* ports never opened; 'tor' not found or another error)
RunEnsure ==
    /\ tpc = "run_ensure"
    /\ \E d \in OpTimes :
          /\ now + d <= Deadline
          /\ now' = now + d
    /\ \E sys_active \in BOOLEAN, sys_socks_ok \in BOOLEAN, sys_ctrl_ok \in BOOLEAN,
          auth \in {"ok", "failed"}, launch \in {"opened", "never_opened", "error"} :
          LET use_sys == UseSystemTor(sys_active, sys_socks_ok, sys_ctrl_ok)
              verified == sys_active /\ sys_socks_ok /\ sys_ctrl_ok /\ auth = "ok"
              \* lines 398-403 have run when the test of line 396 held
              socks0 == IF use_sys THEN DEFAULT_SYS_SOCKS_PORT ELSE socks_port
              ctrl0 == IF use_sys THEN DEFAULT_SYS_CTRL_PORT ELSE control_port
              proxy0 == IF use_sys THEN DEFAULT_SYS_SOCKS_PORT ELSE tor_proxy
          IN  IF use_sys /\ auth = "ok"
              THEN /\ socks_port' = socks0                       \* line 408
                   /\ control_port' = ctrl0
                   /\ tor_proxy' = proxy0
                   /\ ensured' = [ret |-> "True", verified |-> verified]
                   /\ tpc' = "run_initial_ip"
                   /\ UNCHANGED tor_proc
              ELSE IF launch = "opened"
              THEN /\ socks_port' = DEFAULT_USER_SOCKS_PORT      \* lines 441-449
                   /\ control_port' = DEFAULT_USER_CTRL_PORT
                   /\ tor_proxy' = DEFAULT_USER_SOCKS_PORT
                   /\ ensured' = [ret |-> "True", verified |-> verified]
                   /\ tor_proc' = "running"
                   /\ tpc' = "run_initial_ip"
              ELSE /\ socks_port' = socks0                       \* lines 438-439, 450-455
                   /\ control_port' = ctrl0
                   /\ tor_proxy' = proxy0
                   /\ ensured' = [ret |-> "False", verified |-> verified]
                   /\ tor_proc' = (IF launch = "never_opened" THEN "running"
                                   ELSE tor_proc)
                   /\ tpc' = "exited"
    /\ UNCHANGED << outsideChanger, run_ip >>
    /\ UNCHANGED << min_interval, max_interval, running, change_count, last_newnym_ts,
                    tmode, handlers, wakeAt, interval, ci_result, sigPrev, sigLast,
                    ci_waited, stopAtWait, connAfterStop >>

\* run(), lines 482-483: initial_ip = self.get_current_ip()
RunInitialIp ==
    /\ tpc = "run_initial_ip"
    /\ \E d \in OpTimes :
          /\ now + d <= Deadline
          /\ now' = now + d
    \* get_current_ip(), lines 272-292: an address that matched, or "Unknown"
    /\ run_ip' \in {"A", "B", "Unknown"}
    /\ tpc' = "run_loop"
    /\ UNCHANGED outsideChanger
    /\ UNCHANGED << min_interval, max_interval, running, change_count, last_newnym_ts,
                    socks_port, control_port, tor_proxy, ensured, tor_proc, tmode, handlers, wakeAt,
                    interval, ci_result, sigPrev, sigLast, ci_waited, stopAtWait, connAfterStop >>

\* run(), lines 485-490: the loop test, the interval draw and the start of the sleep
RunLoop ==
    /\ tpc = "run_loop"
    /\ running
    /\ \E i \in min_interval..max_interval :
          /\ interval' = i
          /\ wakeAt' = now + i
    /\ tpc' = "run_wait"
    /\ UNCHANGED << outsideChanger, run_ip >>
    /\ UNCHANGED << min_interval, max_interval, running, change_count, last_newnym_ts,
                    socks_port, control_port, tor_proxy, ensured, tor_proc, now, tmode, handlers,
                    ci_result, sigPrev, sigLast, ci_waited, stopAtWait, connAfterStop >>

\* run(), lines 501-502: the loop ends, _cleanup_tor() (lines 457-467)
RunExit ==
    /\ tpc = "run_loop"
    /\ ~running
    /\ tor_proc' = (IF tor_proc = "running" THEN "terminated" ELSE tor_proc)
    /\ tpc' = "exited"
    /\ UNCHANGED << outsideChanger, run_ip >>
    /\ UNCHANGED << min_interval, max_interval, running, change_count, last_newnym_ts,
                    socks_port, control_port, tor_proxy, ensured, now, tmode, handlers, wakeAt,
                    interval, ci_result, sigPrev, sigLast, ci_waited, stopAtWait, connAfterStop >>

\* run(), lines 490-492: time.sleep(interval) ends and change_ip() is called
RunWake ==
    /\ tpc = "run_wait"
    /\ \E d \in OpTimes :
          /\ wakeAt + d <= Deadline
          /\ now' = wakeAt + d
    /\ tpc' = "ci_begin"
    /\ UNCHANGED << outsideChanger, run_ip >>
    /\ UNCHANGED << min_interval, max_interval, running, change_count, last_newnym_ts,
                    socks_port, control_port, tor_proxy, ensured, tor_proc, tmode, handlers, wakeAt,
                    interval, ci_result, sigPrev, sigLast, ci_waited, stopAtWait, connAfterStop >>

\* run(), lines 493-496: time.sleep(1), get_current_ip(), change_count += 1
RunSettle ==
    /\ tpc = "run_settle"
    /\ \E d \in OpTimes :
          /\ now + 1 + d <= Deadline
          /\ now' = now + 1 + d
    \* get_current_ip(), lines 272-292: an address that matched, or "Unknown";
    \* new_ip is printed, never compared
    /\ run_ip' \in {"A", "B", "Unknown"}
    /\ change_count' = change_count + 1
    /\ tpc' = "run_loop"
    /\ UNCHANGED outsideChanger
    /\ UNCHANGED << min_interval, max_interval, running, last_newnym_ts,
                    socks_port, control_port, tor_proxy, ensured, tor_proc, tmode, handlers, wakeAt,
                    interval, ci_result, sigPrev, sigLast, ci_waited, stopAtWait, connAfterStop >>

NextChanger ==
    \/ SetupSignalHandling
    \/ ExitGracefully
    \/ CallChangeIp
    \/ ChangeIpBegin
    \/ ChangeIpWake
    \/ ChangeIpConnect
    \/ ChangeIpAuth
    \/ ChangeIpAuthCookie
    \/ ChangeIpSignal
    \/ CallRun
    \/ RunEnsure
    \/ RunInitialIp
    \/ RunLoop
    \/ RunExit
    \/ RunWake
    \/ RunSettle

(***************************************************************************)
(* tor_ip_changer.py : change_ip, its recovery actions and the changer     *)
(* thread                                                                  *)
(***************************************************************************)
\* no more than this many address changes are counted
MaxChanges == 2
\* largest interval argument tried for ip_changer_loop
MaxIntervalArg == 11
\* a control endpoint accepts at most this many of the credential strategies
MaxAccept == 1

\* change_ip, line 735: time.sleep(5)
SETTLE_SECONDS == 5
\* ip_changer_loop, line 819: for _ in range(15)
RETRY_WAIT_SECONDS == 15

Addresses == {"A", "B"}
\* what get_current_ip() returns: an address, or None
Resolutions == Addresses \cup {"None"}

\* the ladder with the cookie files tried before the passwords
auth_methods_cookies_first == << "no_password", "cookie_var_run", "cookie_var_lib",
                                 "cookie_run", "cookie_run_chroot", "empty_password",
                                 "common_password" >>

\* change_ip, lines 672-685: auth_methods, in list order
auth_methods == << "no_password", "empty_password", "common_password",
                   "cookie_var_run", "cookie_var_lib", "cookie_run",
                   "cookie_run_chroot" >>

\* the strategies a control endpoint may accept
AcceptSets ==
    { S \in SUBSET { auth_methods[i] : i \in 1..Len(auth_methods) } :
         Cardinality(S) <= MaxAccept }

IntervalArgs == {1, MaxIntervalArg}

\* record_ip(ip), lines 298-318: ip_history.append(ip_data), then save_ip_history()
\* (lines 288-296) rewrites the file from the list in memory
RecordIp(ip) ==
    /\ ip_history' = Append(ip_history, ip)
    /\ history_file' = Append(ip_history, ip)

\* a verification that forgets "if new_ip"
IpChangedNoneCounts(new_ip, old_ip) == new_ip # old_ip

\* a verification that counts a change only against a known old address
IpChangedKnownOld(new_ip, old_ip) ==
    new_ip # "None" /\ old_ip # "None" /\ new_ip # old_ip

\* change_ip, lines 740-741 and 756: "if new_ip" and "new_ip != old_ip"
IpChanged(new_ip, old_ip) == new_ip # "None" /\ new_ip # old_ip

\* a change_ip call: the executing thread, its position, the local old_ip, the
\* control session (the strategies its endpoint accepts, the ladder index and the
\* strategies attempted so far) and the caller of clean_restart_tor
NoCall == [thread |-> "none", pc |-> "idle", old_ip |-> "None", accepts |-> {},
           authIdx |-> 0, authLog |-> << >>, password_file |-> FALSE, from |-> "none"]

\* resLog: the results of the address resolutions of the call; escLog: the recovery
\* actions it started; sigGap: sinceSignal when it sent its signal (10 if it sent
\* none); stopDuring: stop_threads was set during the call; changes0, hist0:
\* ip_changes and ip_history when the call began
NoObs == [resLog |-> << >>, escLog |-> << >>, authFailed |-> FALSE, sigCount |-> 0,
          rawCount |-> 0, sigGap |-> 10, ret |-> "none", stopDuring |-> FALSE,
          recoveryAfterStop |-> FALSE, changes0 |-> 0, hist0 |-> << >>]

\* the "with Controller.from_port(...)" block is left: the session is closed
Closed(c, next) == [c EXCEPT !.pc = next, !.accepts = {}, !.authIdx = 0,
                             !.authLog = << >>, !.password_file = FALSE]

\* ip_changer_thread and ip_changer_thread.is_alive()
ChangerAlive == ip_changer_thread # "None" /\ lpc \notin {"unstarted", "finished"}

InitSuite ==
    /\ stop_threads = FALSE
    /\ ip_changer_thread = "None"
    /\ ip_changes = 0
    /\ current_ip = "None"
    /\ mode \in {"change", "menu"}
    \* IP_HISTORY_FILE holds nothing, or one record written by an earlier process
    /\ history_file \in { << >>, << "old" >> }
    \* show_main_menu, line 1183: load_ip_history(); --change loads nothing
    /\ ip_history = (IF mode = "menu" THEN history_file ELSE << >>)
    /\ mpc = (IF mode = "change" THEN "cli_change" ELSE "menu")
    /\ lpc = "unstarted"
    /\ interval_min = 0
    /\ interval_max = 0
    /\ waitLeft = 0
    /\ ci = NoCall
    /\ obs = NoObs
    /\ sinceSignal = NEWNYM_MIN_GAP
   

\* the suite while another program is checked
ParkedSuite ==
    /\ stop_threads = FALSE /\ ip_changer_thread = "None" /\ ip_changes = 0
    /\ current_ip = "None" /\ ip_history = << >> /\ history_file = << >>
    /\ mode = "menu" /\ mpc = "menu"
    /\ lpc = "unstarted" /\ interval_min = 0 /\ interval_max = 0 /\ waitLeft = 0
    /\ ci = NoCall /\ obs = NoObs
    /\ sinceSignal = NEWNYM_MIN_GAP

\* d seconds pass for the thread that sends the signals
Elapse(d) == sinceSignal' = Min(NEWNYM_MIN_GAP, sinceSignal + d)

\* thread t enters change_ip
EnterChangeIp(t) ==
    /\ ci' = [NoCall EXCEPT !.thread = t, !.pc = "old_ip"]
    /\ obs' = [NoObs EXCEPT !.changes0 = ip_changes, !.hist0 = ip_history]

\* a recovery action (restart_tor_service or clean_restart_tor) is started
Escalated(o, what) ==
    [o EXCEPT !.escLog = Append(@, what),
              !.recoveryAfterStop = @ \/ o.stopDuring]

\* get_current_ip() returned r to the change_ip call in progress
Resolved(o, r) == [o EXCEPT !.resLog = Append(@, r)]

\* change_ip ends: "True", "False", "None" (no return statement reached) or
\* "raised" (an exception leaves the function)
Returned(o, r) == [o EXCEPT !.ret = r]

\* the thread state no step of change_ip touches
threadFrame == << ip_changer_thread, mode, mpc, lpc, interval_min, interval_max, waitLeft >>

\* check_current_ip(), lines 778-780: current_ip is set when an address was resolved
AfterCheck(r) == IF r # "None" THEN r ELSE current_ip

\* change_ip, line 659: old_ip = current_ip or get_current_ip()
CiOldIp ==
    /\ ci.pc = "old_ip"
    /\ IF current_ip # "None"
       THEN /\ ci' = [ci EXCEPT !.old_ip = current_ip, !.pc = "is_running"]
            /\ UNCHANGED obs
       ELSE \E r \in Resolutions :
            /\ ci' = [ci EXCEPT !.old_ip = r, !.pc = "is_running"]
            /\ obs' = Resolved(obs, r)
    /\ UNCHANGED << stop_threads, ip_changes, current_ip, ip_history, history_file, sinceSignal >>
    /\ UNCHANGED threadFrame
    /\ UNCHANGED outsideSuite

\* change_ip, line 661: if not is_tor_running()
CiIsRunning ==
    /\ ci.pc = "is_running"
    /\ \/ ci' = [ci EXCEPT !.pc = "connect"]
       \/ ci' = [ci EXCEPT !.pc = "restart0"]
    /\ UNCHANGED << stop_threads, ip_changes, current_ip, ip_history, history_file, obs, sinceSignal >>
    /\ UNCHANGED threadFrame
    /\ UNCHANGED outsideSuite

\* change_ip, line 663: restart_tor_service() (lines 186-265), its result unused
CiRestart0 ==
    /\ ci.pc = "restart0"
    /\ obs' = Escalated(obs, "restart")
    /\ \/ Elapse(1 + 2 + 7)        \* restarted: sleeps of lines 182, 201, 223
       \/ Elapse(1 + 2)            \* not restarted
    /\ ci' = [ci EXCEPT !.pc = "is_running2"]
    /\ UNCHANGED << stop_threads, ip_changes, current_ip, ip_history, history_file >>
    /\ UNCHANGED threadFrame
    /\ UNCHANGED outsideSuite

\* change_ip, lines 664-666: the second is_tor_running()
CiIsRunning2 ==
    /\ ci.pc = "is_running2"
    /\ \/ /\ ci' = [ci EXCEPT !.pc = "connect"]
          /\ UNCHANGED obs
       \/ /\ ci' = [ci EXCEPT !.pc = "done"]
          /\ obs' = Returned(obs, "False")
    /\ UNCHANGED << stop_threads, ip_changes, current_ip, ip_history, history_file, sinceSignal >>
    /\ UNCHANGED threadFrame
    /\ UNCHANGED outsideSuite

\* change_ip, line 670: Controller.from_port; the endpoint reached accepts some strategies
CiConnect ==
    /\ ci.pc = "connect"
    /\ \/ \E acc \in AcceptSets :
             ci' = [ci EXCEPT !.pc = "auth", !.accepts = acc, !.authIdx = 1]
       \/ ci' = [ci EXCEPT !.pc = "fallback"]
    /\ UNCHANGED << stop_threads, ip_changes, current_ip, ip_history, history_file, obs, sinceSignal >>
    /\ UNCHANGED threadFrame
    /\ UNCHANGED outsideSuite

\* a ladder that goes on to the signal when every strategy failed
CiAuthNoRaise ==
    /\ ci.pc = "auth"
    /\ LET m == auth_methods[ci.authIdx]
           c == [ci EXCEPT !.authLog = Append(@, m)]
       IN  IF m \in ci.accepts \/ ci.authIdx = Len(auth_methods)
           THEN ci' = [c EXCEPT !.pc = "signal"]
           ELSE ci' = [c EXCEPT !.authIdx = @ + 1]
    /\ UNCHANGED << stop_threads, ip_changes, current_ip, ip_history, history_file, obs,
                    sinceSignal >>
    /\ UNCHANGED threadFrame
    /\ UNCHANGED outsideSuite

\* change_ip, lines 688-698: one turn of "for auth_method in auth_methods"
CiAuth ==
    /\ ci.pc = "auth"
    /\ LET m == auth_methods[ci.authIdx]
           c == [ci EXCEPT !.authLog = Append(@, m)]
       IN  IF m \in ci.accepts
           THEN /\ ci' = [c EXCEPT !.pc = "signal"]                 \* break
                /\ UNCHANGED obs
           ELSE IF ci.authIdx = Len(auth_methods)
                THEN \* line 698: raise, whether TOR_PASSWORD_FILE exists or not
                     /\ \E file \in BOOLEAN :
                           ci' = [c EXCEPT !.pc = "fallback", !.password_file = file]
                     /\ obs' = [obs EXCEPT !.authFailed = TRUE]
                ELSE /\ ci' = [c EXCEPT !.authIdx = @ + 1]          \* continue
                     /\ UNCHANGED obs
    /\ UNCHANGED << stop_threads, ip_changes, current_ip, ip_history, history_file, sinceSignal >>
    /\ UNCHANGED threadFrame
    /\ UNCHANGED outsideSuite

\* change_ip, lines 701-718: controller.signal(Signal.NEWNYM)
CiSignal ==
    /\ ci.pc = "signal"
    /\ \/ /\ obs' = [obs EXCEPT !.sigCount = @ + 1, !.sigGap = sinceSignal]
          /\ sinceSignal' = 0
          /\ ci' = Closed(ci, "settle")
       \/ /\ ci' = [ci EXCEPT !.pc = "raw"]          \* "unrecognized status code: 514"
          /\ UNCHANGED << obs, sinceSignal >>
       \/ /\ ci' = [ci EXCEPT !.pc = "fallback"]     \* another error: raise
          /\ UNCHANGED << obs, sinceSignal >>
    /\ UNCHANGED << stop_threads, ip_changes, current_ip, ip_history, history_file >>
    /\ UNCHANGED threadFrame
    /\ UNCHANGED outsideSuite

\* a raw command that is sent again when the reply lacks "250"
CiRawResends ==
    /\ ci.pc = "raw"
    /\ \/ /\ obs' = [obs EXCEPT !.rawCount = @ + 1, !.sigCount = @ + 1,
                                 !.sigGap = sinceSignal]
          /\ sinceSignal' = 0
          /\ ci' = Closed(ci, "settle")
       \/ /\ obs.rawCount < 2
          /\ obs' = [obs EXCEPT !.rawCount = @ + 1]
          /\ UNCHANGED << ci, sinceSignal >>
       \/ /\ obs.rawCount >= 2
          /\ obs' = [obs EXCEPT !.rawCount = @ + 1]
          /\ ci' = [ci EXCEPT !.pc = "fallback"]
          /\ UNCHANGED sinceSignal
    /\ UNCHANGED << stop_threads, ip_changes, current_ip, ip_history, history_file >>
    /\ UNCHANGED threadFrame
    /\ UNCHANGED outsideSuite

\* change_ip, lines 707-716: the raw "SIGNAL NEWNYM" command and its reply
CiRaw ==
    /\ ci.pc = "raw"
    /\ \/ /\ obs' = [obs EXCEPT !.rawCount = @ + 1, !.sigCount = @ + 1,   \* "250" in reply
                                 !.sigGap = sinceSignal]
          /\ sinceSignal' = 0
          /\ ci' = Closed(ci, "settle")
       \/ /\ obs' = [obs EXCEPT !.rawCount = @ + 1]                       \* no "250": raise
          /\ ci' = [ci EXCEPT !.pc = "fallback"]
          /\ UNCHANGED sinceSignal
    /\ UNCHANGED << stop_threads, ip_changes, current_ip, ip_history, history_file >>
    /\ UNCHANGED threadFrame
    /\ UNCHANGED outsideSuite

\* change_ip, lines 719-727: the except branch calls restart_tor_service()
CiFallback ==
    /\ ci.pc = "fallback"
    /\ obs' = Escalated(obs, "restart")
    /\ \/ /\ Elapse(1 + 2 + 7)
          /\ ci' = Closed(ci, "settle")
       \/ /\ Elapse(1 + 2)
          /\ ci' = [Closed(ci, "clean_stop") EXCEPT !.from = "fallback"]
    /\ UNCHANGED << stop_threads, ip_changes, current_ip, ip_history, history_file >>
    /\ UNCHANGED threadFrame
    /\ UNCHANGED outsideSuite

\* clean_restart_tor(), lines 576-581: stop_ip_changer_thread() (lines 924-936),
\* stop_ip_monitor_thread(), time.sleep(1).  Thread.join of the calling thread
\* raises RuntimeError.  No monitor thread is started in this program run.
CleanStop ==
    /\ ci.pc = "clean_stop"
    /\ IF ChangerAlive
       THEN /\ stop_threads' = TRUE
            /\ IF ci.thread = "changer"
               THEN IF ci.from = "fallback"
                    THEN /\ ci' = [ci EXCEPT !.pc = "done"]        \* leaves change_ip
                         /\ obs' = Returned([Escalated(obs, "clean")
                                       EXCEPT !.stopDuring = TRUE], "raised")
                    ELSE /\ ci' = [ci EXCEPT !.pc = "done"]        \* lines 770-772
                         /\ obs' = Returned([Escalated(obs, "clean")
                                       EXCEPT !.stopDuring = TRUE], "False")
               ELSE /\ ci' = [ci EXCEPT !.pc = "clean_run"]        \* join(2) returned
                    /\ obs' = [Escalated(obs, "clean") EXCEPT !.stopDuring = TRUE]
            /\ UNCHANGED sinceSignal
       ELSE /\ ci' = [ci EXCEPT !.pc = "clean_run"]
            /\ obs' = Escalated(obs, "clean")
            /\ Elapse(1)
            /\ UNCHANGED stop_threads
    /\ UNCHANGED << ip_changes, current_ip, ip_history, history_file >>
    /\ UNCHANGED threadFrame
    /\ UNCHANGED outsideSuite

\* clean_restart_tor(), lines 583-653: kill, clear, start, is_tor_running(),
\* check_current_ip()
CleanRun ==
    /\ ci.pc = "clean_run"
    /\ Elapse(1 + 1 + 1 + 10)
    /\ \/ \E r \in Resolutions :                                   \* return True
             /\ obs' = Resolved(obs, r)
             /\ current_ip' = AfterCheck(r)
             /\ ci' = [ci EXCEPT !.pc = IF ci.from = "fallback" THEN "settle" ELSE "verify2"]
       \/ /\ ci' = [ci EXCEPT !.pc = "done"]                       \* return False
          /\ obs' = Returned(obs, IF ci.from = "fallback" THEN "False" ELSE "None")
          /\ UNCHANGED current_ip
    /\ UNCHANGED << stop_threads, ip_changes, ip_history, history_file >>
    /\ UNCHANGED threadFrame
    /\ UNCHANGED outsideSuite

\* change_ip, line 735: time.sleep(5)
CiSettle ==
    /\ ci.pc = "settle"
    /\ Elapse(SETTLE_SECONDS)
    /\ ci' = [ci EXCEPT !.pc = "verify"]
    /\ UNCHANGED << stop_threads, ip_changes, current_ip, ip_history, history_file, obs >>
    /\ UNCHANGED threadFrame
    /\ UNCHANGED outsideSuite

\* change_ip, lines 739-754 and 767-769: the first verification
CiVerify ==
    /\ ci.pc = "verify"
    /\ \E r \in Resolutions :
          /\ obs' = (IF IpChanged(r, ci.old_ip) THEN Returned(Resolved(obs, r), "True")
                     ELSE IF r # "None" THEN Resolved(obs, r)
                     ELSE Returned(Resolved(obs, r), "False"))
          /\ IF IpChanged(r, ci.old_ip)
             THEN /\ ip_changes' = ip_changes + 1
                  /\ current_ip' = r
                  /\ RecordIp(r)
                  /\ ci' = [ci EXCEPT !.pc = "done"]
             ELSE /\ current_ip' = AfterCheck(r)
                  /\ UNCHANGED << ip_changes, ip_history, history_file >>
                  /\ IF r # "None"
                     THEN ci' = [ci EXCEPT !.pc = "clean_stop", !.from = "verify"]
                     ELSE ci' = [ci EXCEPT !.pc = "done"]
    /\ UNCHANGED << stop_threads, sinceSignal >>
    /\ UNCHANGED threadFrame
    /\ UNCHANGED outsideSuite

\* change_ip, lines 755-766: the verification after clean_restart_tor() returned True
CiVerify2 ==
    /\ ci.pc = "verify2"
    /\ \E r \in Resolutions :
          /\ obs' = Returned(Resolved(obs, r),
                              IF IpChanged(r, ci.old_ip) THEN "True" ELSE "False")
          /\ ci' = [ci EXCEPT !.pc = "done"]
          /\ IF IpChanged(r, ci.old_ip)
             THEN /\ ip_changes' = ip_changes + 1
                  /\ current_ip' = r
                  /\ RecordIp(r)
             ELSE /\ current_ip' = AfterCheck(r)
                  /\ UNCHANGED << ip_changes, ip_history, history_file >>
    /\ UNCHANGED << stop_threads, sinceSignal >>
    /\ UNCHANGED threadFrame
    /\ UNCHANGED outsideSuite

\* change_ip, lines 691, 702 and 709, restart_tor_service, lines 215-219, and
\* clean_restart_tor, lines 590-632: controller.authenticate, controller.signal,
\* _handler.recv and subprocess.run are called without a timeout, so the call
\* does not return while the endpoint or the command does not answer (no
\* local of the call is used again)
CiHang ==
    /\ ci.pc \in {"auth", "signal", "raw", "restart0", "fallback", "clean_run"}
    /\ ci' = [NoCall EXCEPT !.thread = ci.thread, !.pc = "hung"]
    /\ UNCHANGED << stop_threads, ip_changes, current_ip, ip_history, history_file, obs,
                    sinceSignal >>
    /\ UNCHANGED threadFrame
    /\ UNCHANGED outsideSuite

\* ip_changer_loop, lines 802-804: initial_ip = check_current_ip()
LoopInitialIp ==
    /\ lpc = "initial_ip"
    /\ \E r \in Resolutions : current_ip' = AfterCheck(r)
    /\ lpc' = "loop"
    /\ UNCHANGED << stop_threads, ip_changer_thread, ip_changes, ip_history, history_file, mode, mpc,
                    interval_min, interval_max, waitLeft, ci, obs, sinceSignal >>
    /\ UNCHANGED outsideSuite

\* ip_changer_loop, lines 806-807: "while not stop_threads" holds, change_ip() is called
LoopCallChangeIp ==
    /\ lpc = "loop"
    /\ ~stop_threads
    /\ ip_changes < MaxChanges
    /\ lpc' = "in_change_ip"
    /\ EnterChangeIp("changer")
    /\ UNCHANGED << stop_threads, ip_changer_thread, ip_changes, current_ip, ip_history, history_file,
                    mode, mpc, interval_min, interval_max, waitLeft, sinceSignal >>
    /\ UNCHANGED outsideSuite

\* ip_changer_loop, line 806: "while not stop_threads" fails, the thread ends
LoopExit ==
    /\ lpc = "loop"
    /\ stop_threads
    /\ lpc' = "finished"
    /\ UNCHANGED << stop_threads, ip_changer_thread, ip_changes, current_ip, ip_history, history_file,
                    mode, mpc, interval_min, interval_max, waitLeft, ci, obs,
                    sinceSignal >>
    /\ UNCHANGED outsideSuite

\* ip_changer_loop, lines 807-824: what follows the return of change_ip().
\* random.randint(a, b) raises ValueError when a > b; range(n) is empty for n <= 0.
LoopAfterChangeIp ==
    /\ lpc = "in_change_ip"
    /\ ci.thread = "changer"
    /\ ci.pc = "done"
    /\ IF obs.ret = "raised"
       THEN /\ lpc' = "finished"                          \* lines 823-824
            /\ UNCHANGED waitLeft
       ELSE IF obs.ret = "True"
            THEN IF interval_min > interval_max
                 THEN /\ lpc' = "finished"                \* ValueError, lines 823-824
                      /\ UNCHANGED waitLeft
                 ELSE /\ \E i \in interval_min..interval_max : waitLeft' = Max(i, 0)
                      /\ lpc' = "wait"
            ELSE /\ waitLeft' = RETRY_WAIT_SECONDS
                 /\ lpc' = "wait"
    /\ ci' = NoCall
    /\ obs' = NoObs
    /\ UNCHANGED << stop_threads, ip_changer_thread, ip_changes, current_ip, ip_history, history_file,
                    mode, mpc, interval_min, interval_max, sinceSignal >>
    /\ UNCHANGED outsideSuite

\* ip_changer_loop, lines 813-816 and 819-822: one turn of a wait loop
LoopWait ==
    /\ lpc = "wait"
    /\ IF waitLeft = 0 \/ stop_threads
       THEN /\ lpc' = "loop"
            /\ waitLeft' = 0
            /\ UNCHANGED sinceSignal
       ELSE /\ waitLeft' = waitLeft - 1
            /\ Elapse(1)
            /\ UNCHANGED lpc
    /\ UNCHANGED << stop_threads, ip_changer_thread, ip_changes, current_ip, ip_history, history_file,
                    mode, mpc, interval_min, interval_max, ci, obs >>
    /\ UNCHANGED outsideSuite

\* main, lines 1395-1396: --change calls change_ip() in the main thread
MainCallChangeIp ==
    /\ mpc = "cli_change"
    /\ mpc' = "in_change_ip"
    /\ EnterChangeIp("main")
    /\ UNCHANGED << stop_threads, ip_changer_thread, ip_changes, current_ip, ip_history, history_file,
                    mode, lpc, interval_min, interval_max, waitLeft, sinceSignal >>
    /\ UNCHANGED outsideSuite

\* main, lines 1396-1398: after change_ip(): time.sleep(5), check_current_ip()
MainAfterChangeIp ==
    /\ mpc = "in_change_ip"
    /\ ci.thread = "main"
    /\ ci.pc = "done"
    /\ mpc' = "exit"
    /\ IF obs.ret = "True"
       THEN \E r \in Resolutions : current_ip' = AfterCheck(r)
       ELSE UNCHANGED current_ip
    /\ ci' = NoCall
    /\ obs' = NoObs
    /\ UNCHANGED << stop_threads, ip_changer_thread, ip_changes, ip_history, history_file,
                    mode, lpc, interval_min, interval_max, waitLeft, sinceSignal >>
    /\ UNCHANGED outsideSuite

\* start_ip_changer_thread(interval_min, interval_max), lines 897-922, when it
\* starts a thread (its two "return False" branches change nothing)
StartIpChangerThread ==
    /\ mpc = "menu"
    /\ ~ChangerAlive
    /\ \E a \in IntervalArgs, b \in IntervalArgs :
          /\ interval_min' = a
          /\ interval_max' = b
    /\ stop_threads' = FALSE
    /\ ip_changer_thread' = "thread"
    /\ lpc' = "initial_ip"
    /\ waitLeft' = 0
    /\ UNCHANGED << ip_changes, current_ip, ip_history, history_file, mode, mpc, ci, obs,
                    sinceSignal >>
    /\ UNCHANGED outsideSuite

\* stop_ip_changer_thread(), lines 924-931, called from the menu: the flag, then join(2)
StopIpChangerThread ==
    /\ mpc = "menu"
    /\ ChangerAlive
    /\ stop_threads' = TRUE
    /\ obs' = (IF ci.pc \notin {"idle", "done"} THEN [obs EXCEPT !.stopDuring = TRUE]
               ELSE obs)
    /\ mpc' = "joining"
    /\ UNCHANGED << ip_changer_thread, ip_changes, current_ip, ip_history, history_file, mode, lpc,
                    interval_min, interval_max, waitLeft, ci, sinceSignal >>
    /\ UNCHANGED outsideSuite

\* stop_ip_changer_thread(), lines 931-933: join(2) returns, because the thread
\* ended or because 2 s passed while the thread was inside a call
JoinReturns ==
    /\ mpc = "joining"
    /\ \/ ~ChangerAlive
       \/ lpc \in {"initial_ip", "in_change_ip"}
    /\ mpc' = "menu"
    /\ UNCHANGED << stop_threads, ip_changer_thread, ip_changes, current_ip, ip_history, history_file,
                    mode, lpc, interval_min, interval_max, waitLeft, ci, obs,
                    sinceSignal >>
    /\ UNCHANGED outsideSuite

Next ==
    \/ CiOldIp
    \/ CiIsRunning
    \/ CiRestart0
    \/ CiIsRunning2
    \/ CiConnect
    \/ CiAuth
    \/ CiSignal
    \/ CiRaw
    \/ CiFallback
    \/ CleanStop
    \/ CleanRun
    \/ CiSettle
    \/ CiVerify
    \/ CiVerify2
    \/ CiHang
    \/ LoopInitialIp
    \/ LoopCallChangeIp
    \/ LoopExit
    \/ LoopAfterChangeIp
    \/ LoopWait
    \/ MainCallChangeIp
    \/ MainAfterChangeIp
    \/ StartIpChangerThread
    \/ StopIpChangerThread
    \/ JoinReturns

(***************************************************************************)
(* tor_ip_changer_simplified.py: the changer and monitor threads           *)
(***************************************************************************)

\* how many ip_changer_worker threads one run may start
MaxWorkers == 2

WorkerIds == 1..MaxWorkers

\* Thread.is_alive() of a started worker
WorkerAlive(w) == simp_workers[w].pc \notin {"unborn", "dead"}

\* "ip_changer_thread and ip_changer_thread.is_alive()", lines 451 and 475
SimpChangerAlive ==
    simp_ip_changer_thread # 0 /\ WorkerAlive(simp_ip_changer_thread)

\* "ip_monitor_thread and ip_monitor_thread.is_alive()", lines 490 and 512
SimpMonitorAlive ==
    simp_ip_monitor_thread = "thread" /\ simp_monitor \in {"loop", "sleep"}

InitSimplified ==
    /\ simp_stop_threads = FALSE
    /\ simp_ip_changer_thread = 0
    /\ simp_ip_monitor_thread = "None"
    /\ simp_workers = [w \in WorkerIds |->
                          [pc |-> "unborn", interval_min |-> 0, interval_max |-> 0]]
    /\ simp_monitor = "unstarted"
    /\ simp_main = "menu"
    /\ simp_ret = "none"

ParkedSimplified ==
    /\ simp_stop_threads = FALSE
    /\ simp_ip_changer_thread = 0
    /\ simp_ip_monitor_thread = "None"
    /\ simp_workers = << >>
    /\ simp_monitor = "unstarted"
    /\ simp_main = "parked"
    /\ simp_ret = "none"

\* start_ip_changer_thread(interval_min, interval_max), lines 447-469
SimpStartIpChangerThread ==
    /\ simp_main = "menu"
    /\ \E a \in IntervalArgs, b \in IntervalArgs, tor_up \in BOOLEAN :
          IF SimpChangerAlive \/ ~tor_up
          THEN /\ simp_ret' = "False"
               /\ UNCHANGED << simp_stop_threads, simp_ip_changer_thread, simp_workers >>
          ELSE /\ \E w \in WorkerIds :
                     /\ simp_workers[w].pc = "unborn"
                     /\ \A v \in 1..(w - 1) : simp_workers[v].pc # "unborn"
                     /\ simp_stop_threads' = FALSE
                     /\ simp_ip_changer_thread' = w
                     /\ simp_workers' = [simp_workers EXCEPT ![w] =
                            [pc |-> "loop", interval_min |-> a, interval_max |-> b]]
               /\ simp_ret' = "True"
    /\ UNCHANGED << simp_ip_monitor_thread, simp_monitor, simp_main >>
    /\ UNCHANGED outsideSimplified

\* stop_ip_changer_thread(), lines 471-481: up to the join
SimpStopIpChangerThread ==
    /\ simp_main = "menu"
    /\ IF ~SimpChangerAlive
       THEN /\ simp_ret' = "False"
            /\ UNCHANGED << simp_stop_threads, simp_main >>
       ELSE /\ simp_stop_threads' = TRUE
            /\ simp_main' = "join_changer"
            /\ UNCHANGED simp_ret
    /\ UNCHANGED << simp_ip_changer_thread, simp_ip_monitor_thread, simp_workers,
                    simp_monitor >>
    /\ UNCHANGED outsideSimplified

\* stop_ip_changer_thread(), lines 481-484: join(timeout=2) returns, because the
\* worker ended or because 2 s passed, and the reference is dropped either way
SimpJoinChanger ==
    /\ simp_main = "join_changer"
    /\ \/ ~WorkerAlive(simp_ip_changer_thread)
       \* the steps that last longer than the 2 s of join(timeout=2): change_ip
       \* (its time.sleep(5), its network calls) and the time.sleep(5) of the retry
       \/ simp_workers[simp_ip_changer_thread].pc
             \in {"ci_start", "ci_session", "ci_verify", "retry"}
    /\ simp_ip_changer_thread' = 0
    /\ simp_main' = "menu"
    /\ simp_ret' = "True"
    /\ UNCHANGED << simp_stop_threads, simp_ip_monitor_thread, simp_workers, simp_monitor >>
    /\ UNCHANGED outsideSimplified

(***************************************************************************)

\* start_ip_monitor_thread(), lines 486-506
SimpStartIpMonitorThread ==
    /\ simp_main = "menu"
    /\ \E tor_up \in BOOLEAN :
          IF SimpMonitorAlive \/ ~tor_up
          THEN /\ simp_ret' = "False"
               /\ UNCHANGED << simp_stop_threads, simp_ip_monitor_thread, simp_monitor >>
          ELSE /\ simp_stop_threads' = FALSE
               /\ simp_ip_monitor_thread' = "thread"
               /\ simp_monitor' = "loop"
               /\ simp_ret' = "True"
    /\ UNCHANGED << simp_ip_changer_thread, simp_workers, simp_main >>
    /\ UNCHANGED outsideSimplified

\* stop_ip_monitor_thread(), lines 508-517: up to the join
SimpStopIpMonitorThread ==
    /\ simp_main = "menu"
    /\ IF ~SimpMonitorAlive
       THEN /\ simp_ret' = "False"
            /\ UNCHANGED << simp_stop_threads, simp_main >>
       ELSE /\ simp_stop_threads' = TRUE
            /\ simp_main' = "join_monitor"
            /\ UNCHANGED simp_ret
    /\ UNCHANGED << simp_ip_changer_thread, simp_ip_monitor_thread, simp_workers,
                    simp_monitor >>
    /\ UNCHANGED outsideSimplified

\* stop_ip_monitor_thread(), lines 518-521: join(timeout=2) returns (the monitor
\* ended, or it is in its time.sleep(30)) and the reference is dropped
SimpJoinMonitor ==
    /\ simp_main = "join_monitor"
    /\ simp_monitor \in {"dead", "sleep"}
    /\ simp_ip_monitor_thread' = "None"
    /\ simp_main' = "menu"
    /\ simp_ret' = "True"
    /\ UNCHANGED << simp_stop_threads, simp_ip_changer_thread, simp_workers, simp_monitor >>
    /\ UNCHANGED outsideSimplified

\* show_main_menu(), lines 673-680 and 686-693: choice "0" or Ctrl+C; the
\* process ends and takes its daemon threads with it
SimpExit ==
    /\ simp_main = "menu"
    /\ simp_stop_threads' = TRUE
    /\ simp_main' = "exited"
    /\ simp_workers' = [w \in WorkerIds |->
          IF WorkerAlive(w)
          THEN [pc |-> "dead", interval_min |-> 0, interval_max |-> 0]
          ELSE simp_workers[w]]
    /\ simp_monitor' = (IF simp_monitor \in {"loop", "sleep"} THEN "dead" ELSE simp_monitor)
    /\ UNCHANGED << simp_ip_changer_thread, simp_ip_monitor_thread, simp_ret >>
    /\ UNCHANGED outsideSimplified

WorkerStep(w, next) ==
    /\ simp_workers' = [simp_workers EXCEPT ![w] =
          \* a thread that ended keeps nothing but the fact that it ended
          IF next = "dead"
          THEN [pc |-> "dead", interval_min |-> 0, interval_max |-> 0]
          ELSE [@ EXCEPT !.pc = next]]
    /\ UNCHANGED << simp_stop_threads, simp_ip_changer_thread, simp_ip_monitor_thread,
                    simp_monitor, simp_main, simp_ret >>
    /\ UNCHANGED outsideSimplified

\* ip_changer_worker, line 406: "while not stop_threads", then the call of change_ip
WorkerLoop(w) ==
    /\ simp_workers[w].pc = "loop"
    /\ WorkerStep(w, IF simp_stop_threads THEN "dead" ELSE "ci_start")

\* change_ip, lines 306-314: old_ip, is_tor_running, restart_tor_service
WorkerCiStart(w) ==
    /\ simp_workers[w].pc = "ci_start"
    /\ \/ WorkerStep(w, "ci_session")
       \/ WorkerStep(w, "retry")            \* Tor could not be started: return False

\* change_ip, lines 316-356: the control session (authenticate, NEWNYM) and the
\* restart of the service when it failed
WorkerCiSession(w) ==
    /\ simp_workers[w].pc = "ci_session"
    /\ \/ WorkerStep(w, "ci_verify")
       \/ WorkerStep(w, "retry")            \* the restart failed too: return False

\* change_ip, lines 358-396: time.sleep(5) and the verification; then lines
\* 407-410 of the worker: random.randint raises ValueError on an empty range
WorkerCiVerify(w) ==
    /\ simp_workers[w].pc = "ci_verify"
    /\ \/ WorkerStep(w, IF simp_workers[w].interval_min > simp_workers[w].interval_max
                         THEN "dead" ELSE "wait")
       \/ WorkerStep(w, "retry")            \* return False

\* ip_changer_worker, lines 413-415: the wait ends (interval over or stop seen)
WorkerWait(w) ==
    /\ simp_workers[w].pc = "wait"
    /\ WorkerStep(w, "loop")

\* ip_changer_worker, lines 416-418: time.sleep(5), not cut short by stop_threads
WorkerRetry(w) ==
    /\ simp_workers[w].pc = "retry"
    /\ WorkerStep(w, "loop")

\* ip_monitor_worker, lines 431-445: the loop test, one check and time.sleep(30)
MonitorLoop ==
    /\ simp_monitor = "loop"
    /\ simp_monitor' = (IF simp_stop_threads THEN "dead" ELSE "sleep")
    /\ UNCHANGED << simp_stop_threads, simp_ip_changer_thread, simp_ip_monitor_thread,
                    simp_workers, simp_main, simp_ret >>
    /\ UNCHANGED outsideSimplified

\* ip_monitor_worker, line 445: time.sleep(30) ends
MonitorWake ==
    /\ simp_monitor = "sleep"
    /\ simp_monitor' = "loop"
    /\ UNCHANGED << simp_stop_threads, simp_ip_changer_thread, simp_ip_monitor_thread,
                    simp_workers, simp_main, simp_ret >>
    /\ UNCHANGED outsideSimplified

NextSimplified ==
    \/ SimpStartIpChangerThread
    \/ SimpStopIpChangerThread
    \/ SimpJoinChanger
    \/ SimpStartIpMonitorThread
    \/ SimpStopIpMonitorThread
    \/ SimpJoinMonitor
    \/ SimpExit
    \/ \E w \in WorkerIds : WorkerLoop(w)
    \/ \E w \in WorkerIds : WorkerCiStart(w)
    \/ \E w \in WorkerIds : WorkerCiSession(w)
    \/ \E w \in WorkerIds : WorkerCiVerify(w)
    \/ \E w \in WorkerIds : WorkerWait(w)
    \/ \E w \in WorkerIds : WorkerRetry(w)
    \/ MonitorLoop
    \/ MonitorWake

(***************************************************************************)
(* tor_ip_changer.py: the menu thread, the changer threads, the monitor    *)
(***************************************************************************)

\* how many ip_changer_loop threads one run may start
MaxChangerThreads == 2

ChangerIds == 1..MaxChangerThreads

\* a thread object: where the thread is, the old_ip of its change_ip call, the exit
\* address when that call began, and whether old_ip came from an overwritten current_ip
NoChanger == [pc |-> "unborn", old_ip |-> "None", exit0 |-> "None", stale |-> FALSE]

NoMonitor == [pc |-> "unstarted", last_ip |-> "None", new_ip |-> "None"]

\* Thread.is_alive()
ThreadAlive(t) == thr_changers[t].pc \notin {"unborn", "dead"}

\* a guard that takes a thread that was asked to stop for a thread that ended
ThrChangerAliveUnlessStopped ==
    /\ thr_ip_changer_thread # 0
    /\ ThreadAlive(thr_ip_changer_thread)
    /\ ~thr_stop_threads

\* "ip_changer_thread and ip_changer_thread.is_alive()", lines 901 and 928
ThrChangerAlive ==
    thr_ip_changer_thread # 0 /\ ThreadAlive(thr_ip_changer_thread)

\* "ip_monitor_thread and ip_monitor_thread.is_alive()", lines 942 and 967
ThrMonitorAlive ==
    thr_ip_monitor_thread = "thread" /\ thr_monitor.pc \notin {"unstarted", "dead"}

\* get_current_ip(), lines 497-520: the exit address, or None when no service answered
ThrResolutions == {thr_exit_ip, "None"}

InitThreads ==
    /\ thr_stop_threads = FALSE
    /\ thr_ip_changer_thread = 0
    /\ thr_ip_monitor_thread = "None"
    /\ thr_current_ip = "None"
    /\ thr_exit_ip \in Addresses
    /\ thr_changers = [t \in ChangerIds |-> NoChanger]
    /\ thr_monitor = NoMonitor
    \* alive: the changer was alive at the call; other: the call set the flag while
    \* the other worker was alive; stopped: stop_ip_changer_thread has returned True
    \* and start_ip_changer_thread was not called since
    /\ thr_last = [op |-> "none", ret |-> "none", alive |-> FALSE, other |-> FALSE,
                   stopped |-> FALSE]
    /\ thr_race = [fresh |-> FALSE, stale |-> FALSE, overwrite |-> FALSE,
                   false_change |-> FALSE, records |-> -1]

ParkedThreads ==
    /\ thr_stop_threads = FALSE
    /\ thr_ip_changer_thread = 0
    /\ thr_ip_monitor_thread = "None"
    /\ thr_current_ip = "None"
    /\ thr_exit_ip = "None"
    /\ thr_changers = << >>
    /\ thr_monitor = NoMonitor
    /\ thr_last = [op |-> "parked", ret |-> "none", alive |-> FALSE, other |-> FALSE,
                   stopped |-> FALSE]
    /\ thr_race = [fresh |-> FALSE, stale |-> FALSE, overwrite |-> FALSE,
                   false_change |-> FALSE, records |-> -1]

\* start_ip_changer_thread(), lines 897-922, called by the menu thread
ThrStartIpChangerThread ==
    /\ \E tor_up \in BOOLEAN :
          IF ThrChangerAlive \/ ~tor_up
          THEN /\ thr_last' = [op |-> "start_changer", ret |-> "False",
                               alive |-> ThrChangerAlive, other |-> FALSE,
                               stopped |-> FALSE]
               /\ UNCHANGED << thr_stop_threads, thr_ip_changer_thread, thr_changers >>
          ELSE /\ \E t \in ChangerIds :
                     /\ thr_changers[t].pc = "unborn"
                     /\ \A u \in 1..(t - 1) : thr_changers[u].pc # "unborn"
                     /\ thr_stop_threads' = FALSE
                     /\ thr_ip_changer_thread' = t
                     /\ thr_changers' = [thr_changers EXCEPT ![t].pc = "initial_ip"]
               /\ thr_last' = [op |-> "start_changer", ret |-> "True", alive |-> FALSE,
                               other |-> FALSE, stopped |-> FALSE]
    /\ UNCHANGED << thr_ip_monitor_thread, thr_current_ip, thr_exit_ip, thr_monitor,
                    thr_race >>
    /\ UNCHANGED outsideThreads

\* stop_ip_changer_thread(), lines 924-936, called by the menu thread: the flag and
\* join(2), which returns when the thread ended or after 2 s; the reference is kept
ThrStopIpChangerThread ==
    /\ IF ThrChangerAlive
       THEN /\ thr_stop_threads' = TRUE
            /\ thr_last' = [op |-> "stop_changer", ret |-> "True", alive |-> TRUE,
                            other |-> ThrMonitorAlive /\ ~thr_stop_threads,
                            stopped |-> TRUE]
       ELSE /\ thr_last' = [op |-> "stop_changer", ret |-> "False", alive |-> FALSE,
                            other |-> FALSE, stopped |-> thr_last.stopped]
            /\ UNCHANGED thr_stop_threads
    /\ UNCHANGED << thr_ip_changer_thread, thr_ip_monitor_thread, thr_current_ip,
                    thr_exit_ip, thr_changers, thr_monitor, thr_race >>
    /\ UNCHANGED outsideThreads

\* start_ip_monitor_thread(), lines 938-961, called by the menu thread
ThrStartIpMonitorThread ==
    /\ \E tor_up \in BOOLEAN :
          IF ThrMonitorAlive \/ ~tor_up
          THEN /\ thr_last' = [op |-> "start_monitor", ret |-> "False",
                               alive |-> ThrChangerAlive, other |-> FALSE,
                               stopped |-> thr_last.stopped]
               /\ UNCHANGED << thr_stop_threads, thr_ip_monitor_thread, thr_monitor >>
          ELSE /\ thr_stop_threads' = FALSE
               /\ thr_ip_monitor_thread' = "thread"
               /\ thr_monitor' = [NoMonitor EXCEPT !.pc = "first"]
               /\ thr_last' = [op |-> "start_monitor", ret |-> "True",
                               alive |-> ThrChangerAlive, other |-> FALSE,
                               stopped |-> thr_last.stopped]
    /\ UNCHANGED << thr_ip_changer_thread, thr_current_ip, thr_exit_ip, thr_changers,
                    thr_race >>
    /\ UNCHANGED outsideThreads

\* stop_ip_monitor_thread(), lines 963-975, called by the menu thread
ThrStopIpMonitorThread ==
    /\ IF ThrMonitorAlive
       THEN /\ thr_stop_threads' = TRUE
            /\ thr_last' = [op |-> "stop_monitor", ret |-> "True",
                            alive |-> ThrChangerAlive,
                            other |-> ThrChangerAlive /\ ~thr_stop_threads,
                            stopped |-> thr_last.stopped]
       ELSE /\ thr_last' = [op |-> "stop_monitor", ret |-> "False",
                            alive |-> ThrChangerAlive, other |-> FALSE,
                            stopped |-> thr_last.stopped]
            /\ UNCHANGED thr_stop_threads
    /\ UNCHANGED << thr_ip_changer_thread, thr_ip_monitor_thread, thr_current_ip,
                    thr_exit_ip, thr_changers, thr_monitor, thr_race >>
    /\ UNCHANGED outsideThreads

\* a changer thread stores the address r it has just resolved in current_ip
ChangerWrites(r) ==
    /\ thr_current_ip' = r
    \* fresh: the monitor holds an address it resolved and has not yet stored
    /\ thr_race' = [thr_race EXCEPT !.fresh = thr_monitor.pc \in {"publish", "resolved"},
                                    !.stale = FALSE]

\* record_ip(ip), lines 298-318: ip_history.append(ip_data).  records counts the
\* records of the present exit address appended since a rotation last changed
\* it (2 stands for two or more); it is -1 until a rotation has changed it
Recorded(race, ip) ==
    [race EXCEPT !.records = IF @ >= 0 /\ ip = thr_exit_ip THEN Min(@ + 1, 2) ELSE @]

\* the monitor stores in current_ip the address v it resolved some time ago
MonitorWrites(v, race) ==
    LET older == thr_race.fresh /\ v # thr_current_ip
    IN  /\ thr_current_ip' = v
        /\ thr_race' = [race EXCEPT !.fresh = FALSE, !.stale = older,
                                    !.overwrite = @ \/ older]

ChangerFrame == << thr_ip_changer_thread, thr_ip_monitor_thread, thr_monitor, thr_last >>

\* ip_changer_loop, lines 802-804: initial_ip = check_current_ip() (lines 774-781)
ThrLoopInitialIp(t) ==
    /\ thr_changers[t].pc = "initial_ip"
    /\ \E r \in ThrResolutions :
          IF r # "None" THEN ChangerWrites(r)
                        ELSE UNCHANGED << thr_current_ip, thr_race >>
    /\ thr_changers' = [thr_changers EXCEPT ![t].pc = "loop"]
    /\ UNCHANGED << thr_stop_threads, thr_exit_ip, ChangerFrame >>
    /\ UNCHANGED outsideThreads

\* ip_changer_loop, lines 806-807: "while not stop_threads", then change_ip() is called
ThrLoop(t) ==
    /\ thr_changers[t].pc = "loop"
    /\ thr_changers' = [thr_changers EXCEPT ![t] =
          IF thr_stop_threads THEN [NoChanger EXCEPT !.pc = "dead"]
                              ELSE [@ EXCEPT !.pc = "ci_old"]]
    /\ UNCHANGED << thr_stop_threads, thr_current_ip, thr_exit_ip, thr_race, ChangerFrame >>
    /\ UNCHANGED outsideThreads

\* change_ip, line 659: old_ip = current_ip or get_current_ip()
ThrCiOldIp(t) ==
    /\ thr_changers[t].pc = "ci_old"
    /\ \E r \in ThrResolutions :
          thr_changers' = [thr_changers EXCEPT ![t] =
              [pc |-> "ci_session",
               old_ip |-> IF thr_current_ip # "None" THEN thr_current_ip ELSE r,
               exit0 |-> thr_exit_ip,
               stale |-> thr_current_ip # "None" /\ thr_race.stale]]
    /\ UNCHANGED << thr_stop_threads, thr_current_ip, thr_exit_ip, thr_race, ChangerFrame >>
    /\ UNCHANGED outsideThreads

\* clean_restart_tor(), lines 579-580, called inside change_ip by thread t:
\* stop_ip_changer_thread() and stop_ip_monitor_thread() set the flag when the thread
\* they look at is alive; join(2) on the calling thread itself raises RuntimeError
ThrCleanStop(t) ==
    thr_stop_threads' = (thr_stop_threads \/ ThrChangerAlive \/ ThrMonitorAlive)

\* change_ip, lines 661-732: is_tor_running, the control session (authenticate,
\* NEWNYM) and the restarts of the except branch
ThrCiSession(t) ==
    /\ thr_changers[t].pc = "ci_session"
    /\ \/ \* the signal was accepted, or restart_tor_service() succeeded
          /\ thr_exit_ip' \in Addresses
          /\ thr_changers' = [thr_changers EXCEPT ![t].pc = "ci_verify"]
          /\ UNCHANGED thr_stop_threads
       \/ \* Tor could not be started (line 666): return False
          /\ thr_changers' = [thr_changers EXCEPT ![t] = [NoChanger EXCEPT !.pc = "retry"]]
          /\ UNCHANGED << thr_stop_threads, thr_exit_ip >>
       \/ \* session and restart failed: clean_restart_tor() (line 728)
          /\ ThrCleanStop(t)
          /\ IF thr_ip_changer_thread = t     \* join() of the calling thread
             THEN \* RuntimeError leaves change_ip and ends ip_changer_loop (line 823)
                  /\ thr_changers' = [thr_changers EXCEPT
                                         ![t] = [NoChanger EXCEPT !.pc = "dead"]]
                  /\ UNCHANGED thr_exit_ip
             ELSE /\ thr_exit_ip' \in Addresses
                  /\ \E ok \in BOOLEAN :
                        thr_changers' = [thr_changers EXCEPT ![t] =
                            IF ok THEN [@ EXCEPT !.pc = "ci_verify"]
                                  ELSE [NoChanger EXCEPT !.pc = "retry"]]
    \* a rotation that changes the exit address: no record of the new one yet
    /\ thr_race' = [thr_race EXCEPT !.records = IF thr_exit_ip' # thr_exit_ip THEN 0
                                                ELSE @]
    /\ UNCHANGED << thr_current_ip, ChangerFrame >>
    /\ UNCHANGED outsideThreads

\* change_ip, lines 735-772: time.sleep(5), new_ip = check_current_ip() and the
\* comparison with old_ip; an unchanged address calls clean_restart_tor() (line 754)
ThrCiVerify(t) ==
    /\ thr_changers[t].pc = "ci_verify"
    /\ \E r \in ThrResolutions :
          IF r = "None"
          THEN /\ thr_changers' = [thr_changers EXCEPT ![t] =
                      [NoChanger EXCEPT !.pc = "retry"]]
               /\ UNCHANGED << thr_stop_threads, thr_current_ip, thr_race >>
          ELSE IF r # thr_changers[t].old_ip
          THEN /\ thr_current_ip' = r
               /\ thr_race' = [Recorded(thr_race, r) EXCEPT
                      !.fresh = thr_monitor.pc \in {"publish", "resolved"},
                      !.stale = FALSE,
                      !.false_change = @ \/ (/\ thr_changers[t].stale
                                              /\ thr_changers[t].exit0 = thr_exit_ip)]
               /\ thr_changers' = [thr_changers EXCEPT ![t] =
                      [NoChanger EXCEPT !.pc = "wait"]]
               /\ UNCHANGED thr_stop_threads
          ELSE /\ ChangerWrites(r)
               /\ ThrCleanStop(t)
               /\ thr_changers' = [thr_changers EXCEPT ![t] =
                      [NoChanger EXCEPT !.pc = "retry"]]
    /\ UNCHANGED << thr_exit_ip, ChangerFrame >>
    /\ UNCHANGED outsideThreads

\* ip_changer_loop, lines 813-816 and 819-822: the wait after a call ends
ThrWait(t) ==
    /\ thr_changers[t].pc \in {"wait", "retry"}
    /\ thr_changers' = [thr_changers EXCEPT ![t].pc = "loop"]
    /\ UNCHANGED << thr_stop_threads, thr_current_ip, thr_exit_ip, thr_race, ChangerFrame >>
    /\ UNCHANGED outsideThreads

MonitorFrame == << thr_stop_threads, thr_ip_changer_thread, thr_ip_monitor_thread,
                   thr_exit_ip, thr_changers, thr_last >>

\* monitor_ip_loop, line 830: last_ip = get_current_ip()
MonFirst ==
    /\ thr_monitor.pc = "first"
    /\ \E r \in ThrResolutions :
          thr_monitor' = [thr_monitor EXCEPT !.pc = "publish", !.last_ip = r]
    /\ thr_race' = [thr_race EXCEPT !.fresh = FALSE]
    /\ UNCHANGED << thr_current_ip, MonitorFrame >>
    /\ UNCHANGED outsideThreads

\* monitor_ip_loop, lines 831-832: current_ip = last_ip
MonPublish ==
    /\ thr_monitor.pc = "publish"
    /\ MonitorWrites(thr_monitor.last_ip, thr_race)
    /\ thr_monitor' = [thr_monitor EXCEPT !.pc = "loop"]
    /\ UNCHANGED MonitorFrame
    /\ UNCHANGED outsideThreads

\* a monitor loop that does not read the flag ("while True")
MonLoopIgnoresStop ==
    /\ thr_monitor.pc = "loop"
    /\ thr_monitor' = [thr_monitor EXCEPT !.pc = "sleep"]
    /\ UNCHANGED << thr_current_ip, thr_race, MonitorFrame >>
    /\ UNCHANGED outsideThreads

\* monitor_ip_loop, lines 835-836: "while not stop_threads", then time.sleep(30)
MonLoop ==
    /\ thr_monitor.pc = "loop"
    /\ thr_monitor' = IF thr_stop_threads THEN [NoMonitor EXCEPT !.pc = "dead"]
                                          ELSE [thr_monitor EXCEPT !.pc = "sleep"]
    /\ UNCHANGED << thr_current_ip, thr_race, MonitorFrame >>
    /\ UNCHANGED outsideThreads

\* monitor_ip_loop, lines 836-839: the sleep ends, new_ip = get_current_ip()
MonResolve ==
    /\ thr_monitor.pc = "sleep"
    /\ \E r \in ThrResolutions :
          thr_monitor' = [thr_monitor EXCEPT !.pc = "resolved", !.new_ip = r]
    /\ thr_race' = [thr_race EXCEPT !.fresh = FALSE]
    /\ UNCHANGED << thr_current_ip, MonitorFrame >>
    /\ UNCHANGED outsideThreads

\* monitor_ip_loop, lines 840-847: the comparison, get_ip_details, then
\* last_ip = new_ip, current_ip = new_ip and record_ip
MonCompare ==
    /\ thr_monitor.pc = "resolved"
    /\ IF thr_monitor.new_ip # "None" /\ thr_monitor.new_ip # thr_monitor.last_ip
       THEN /\ MonitorWrites(thr_monitor.new_ip, Recorded(thr_race, thr_monitor.new_ip))
            /\ thr_monitor' = [pc |-> "loop", last_ip |-> thr_monitor.new_ip,
                               new_ip |-> "None"]
       ELSE /\ thr_monitor' = [thr_monitor EXCEPT !.pc = "loop", !.new_ip = "None"]
            /\ thr_race' = [thr_race EXCEPT !.fresh = FALSE]
            /\ UNCHANGED thr_current_ip
    /\ UNCHANGED MonitorFrame
    /\ UNCHANGED outsideThreads

NextThreads ==
    \/ ThrStartIpChangerThread
    \/ ThrStopIpChangerThread
    \/ ThrStartIpMonitorThread
    \/ ThrStopIpMonitorThread
    \/ \E t \in ChangerIds : ThrLoopInitialIp(t)
    \/ \E t \in ChangerIds : ThrLoop(t)
    \/ \E t \in ChangerIds : ThrCiOldIp(t)
    \/ \E t \in ChangerIds : ThrCiSession(t)
    \/ \E t \in ChangerIds : ThrCiVerify(t)
    \/ \E t \in ChangerIds : ThrWait(t)
    \/ MonFirst
    \/ MonPublish
    \/ MonLoop
    \/ MonResolve
    \/ MonCompare

(***************************************************************************)
(* The lookups: get_current_ip and get_ip_details                          *)
(***************************************************************************)

\* torip_changer.py, lines 274-279: the address services of TorIpChanger
urls == << "https://api.ipify.org", "https://ifconfig.me/ip",
           "https://icanhazip.com", "https://ident.me" >>

\* tor_ip_changer.py, lines 502-507: the address services of get_current_ip
ip_services == << "https://api.ipify.org", "https://icanhazip.com",
                  "https://ident.me", "https://ipecho.net/plain" >>

\* tor_ip_changer.py, lines 530-536: the geolocation services of get_ip_details
geo_services == << "https://ipapi.co/{ip}/json/", "https://ipinfo.io/{ip}/json",
                   "https://freegeoip.app/json/{ip}",
                   "https://extreme-ip-lookup.com/json/{ip}" >>

\* what one request of get_current_ip meets: an exception (time-out, refused
\* connection), or a response with its status_code and its text.  The text is
\* given character by character: an address followed by white space, four
\* parts of which the first is 999, an HTML page, a body of white space only
Responses ==
    { [raised |-> TRUE, status_code |-> 0, text |-> << >>] }
    \cup { [raised |-> FALSE, status_code |-> st, text |-> b] :
              st \in {200, 503},
              b \in { << "1", ".", "2", ".", "3", ".", "4", " " >>,
                      << "9", "9", "9", ".", "2", ".", "3", ".", "4" >>,
                      << "<", "h", ">" >>,
                      << " " >> } }

\* str.strip(): the text without its leading and trailing white space
RECURSIVE strip(_)
strip(s) ==
    IF s = << >> THEN s
    ELSE IF s[1] = " " THEN strip(Tail(s))
    ELSE IF s[Len(s)] = " " THEN strip(SubSeq(s, 1, Len(s) - 1))
    ELSE s

\* the parts of s between its dots
RECURSIVE SplitDots(_)
SplitDots(s) ==
    IF \A i \in 1..Len(s) : s[i] # "."
    THEN << s >>
    ELSE LET k == CHOOSE i \in 1..Len(s) :
                      s[i] = "." /\ \A j \in 1..(i - 1) : s[j] # "."
         IN  << SubSeq(s, 1, k - 1) >> \o SplitDots(SubSeq(s, k + 1, Len(s)))

\* the characters \d matches
DecimalDigits == {"0", "1", "2", "3", "4", "5", "6", "7", "8", "9"}

\* torip_changer.py, line 287:
\* re.match(r"^\d{1,3}\.\d{1,3}\.\d{1,3}\.\d{1,3}$", ip)
AddressPattern(ip) ==
    LET parts == SplitDots(ip)
    IN  /\ Len(parts) = 4
        /\ \A n \in 1..4 :
              /\ Len(parts[n]) \in 1..3
              /\ \A i \in 1..Len(parts[n]) : parts[n][i] \in DecimalDigits

\* the values get_current_ip returns: a text, the string "Unknown", or None
TextValue(t) == [kind |-> "text", text |-> t]
NoneValue == [kind |-> "None", text |-> << >>]

\* "not ip": None and the empty string are false
Falsy(ip) == ip.kind = "None" \/ (ip.kind = "text" /\ ip.text = << >>)

\* TorIpChanger.get_current_ip, lines 281-292, from the i-th service on
RECURSIVE TorIpChangerGetCurrentIpFrom(_, _)
TorIpChangerGetCurrentIpFrom(responses, i) ==
    IF i > Len(urls)
    THEN [kind |-> "Unknown", text |-> << >>]
    ELSE IF /\ ~responses[i].raised
            /\ responses[i].status_code = 200
            /\ AddressPattern(strip(responses[i].text))
         THEN TextValue(strip(responses[i].text))
         ELSE TorIpChangerGetCurrentIpFrom(responses, i + 1)

\* tor_ip_changer.py get_current_ip, lines 497-520, from the i-th service on;
\* session is FALSE when get_tor_session() raises
RECURSIVE get_current_ip(_, _, _)
get_current_ip(session, responses, i) ==
    IF ~session \/ i > Len(ip_services)
    THEN NoneValue
    ELSE IF ~responses[i].raised /\ responses[i].status_code = 200
         THEN TextValue(strip(responses[i].text))
         ELSE get_current_ip(session, responses, i + 1)

\* what one request of get_ip_details meets: an exception (also from
\* response.json()), or a response with its status_code and its JSON document:
\* one with the keys of ipapi.co, one with the keys of ip-api style services,
\* one with neither
GeoResponses ==
    { [raised |-> TRUE, status_code |-> 0, data |-> [bogon |-> "true"]] }
    \cup { [raised |-> FALSE, status_code |-> st, data |-> d] :
              st \in {200, 503},
              d \in { [country_name |-> "Germany", country_code |-> "DE",
                       region |-> "Berlin", city |-> "Berlin", org |-> "AS1",
                       latitude |-> "52.5", longitude |-> "13.4",
                       timezone |-> "Europe/Berlin"],
                      [country |-> "Germany", countryCode |-> "DE",
                       regionName |-> "Berlin", isp |-> "AS1", lat |-> "52.5",
                       lon |-> "13.4", timeZone |-> "Europe/Berlin"],
                      [bogon |-> "true"] } }

\* dict.get(key, default)
Get(data, key, default) == IF key \in DOMAIN data THEN data[key] ELSE default

\* tor_ip_changer.py get_ip_details, lines 546-557: the normalised record (the
\* number 0 of the latitude and longitude defaults is written "0")
ip_details(ip, data, service_url) ==
    [ip |-> ip.text,
     country |-> Get(data, "country_name", Get(data, "country", "Unknown")),
     country_code |-> Get(data, "country_code", Get(data, "countryCode", "Unknown")),
     region |-> Get(data, "region",
                    Get(data, "regionName", Get(data, "region_name", "Unknown"))),
     city |-> Get(data, "city", "Unknown"),
     isp |-> Get(data, "org", Get(data, "isp", "Unknown")),
     latitude |-> Get(data, "latitude", Get(data, "lat", "0")),
     longitude |-> Get(data, "longitude", Get(data, "lon", "0")),
     timezone |-> Get(data, "timezone", Get(data, "timeZone", "Unknown")),
     source |-> service_url]

\* tor_ip_changer_simplified.py get_ip_details, lines 217-225
simplified_ip_details(ip, data, service_url) ==
    [ip |-> ip.text,
     country |-> Get(data, "country_name", Get(data, "country", "Unknown")),
     country_code |-> Get(data, "country_code", Get(data, "countryCode", "XX")),
     region |-> Get(data, "region",
                    Get(data, "regionName", Get(data, "region_name", "Unknown"))),
     city |-> Get(data, "city", "Unknown"),
     isp |-> Get(data, "org", Get(data, "isp", "Unknown")),
     source |-> service_url]

\* get_ip_details, lines 562-572 (simplified: 230-239): the record returned
\* when no service answered
basic_info(ip) ==
    [ip |-> ip.text, country |-> "Unknown", country_code |-> "XX",
     region |-> "Unknown", city |-> "Unknown", isp |-> "Unknown",
     source |-> "local"]

\* get_ip_details returned None; a returned dict d is
\* [none |-> FALSE, dict |-> d]
NoDetails == [none |-> TRUE, dict |-> [ip |-> << >>]]

\* get_ip_details, lines 538-572 (simplified: 208-239), from the i-th service
\* on; file names the module
RECURSIVE GetIpDetailsFrom(_, _, _, _)
GetIpDetailsFrom(file, ip, geo, i) ==
    IF i > Len(geo_services)
    THEN [none |-> FALSE, dict |-> basic_info(ip)]
    ELSE IF ~geo[i].raised /\ geo[i].status_code = 200
         THEN [none |-> FALSE,
               dict |-> IF file = "tor_ip_changer"
                        THEN ip_details(ip, geo[i].data, geo_services[i])
                        ELSE simplified_ip_details(ip, geo[i].data, geo_services[i])]
         ELSE GetIpDetailsFrom(file, ip, geo, i + 1)

InitLookup ==
    /\ lk_call = "none"
    /\ lk_pc = "idle"
    /\ lk_responses = << >>
    /\ lk_ip = NoneValue
    /\ lk_geo = << >>
    /\ lk_details = NoDetails
    /\ lk_tor_ip = [answers |-> << >>, tried |-> << >>, ret |-> FALSE]

ParkedLookup ==
    /\ lk_call = "parked"
    /\ lk_pc = "parked"
    /\ lk_responses = << >>
    /\ lk_ip = NoneValue
    /\ lk_geo = << >>
    /\ lk_details = NoDetails
    /\ lk_tor_ip = [answers |-> << >>, tried |-> << >>, ret |-> FALSE]

\* a call of TorIpChanger.get_current_ip(), torip_changer.py lines 272-292
LkTorIpChangerGetCurrentIp ==
    /\ lk_pc = "idle"
    /\ \E responses \in [1..Len(urls) -> Responses] :
          /\ lk_responses' = responses
          /\ lk_ip' = TorIpChangerGetCurrentIpFrom(responses, 1)
    /\ lk_call' = "TorIpChanger.get_current_ip"
    /\ lk_geo' = << >>
    /\ lk_details' = NoDetails
    /\ lk_pc' = "returned"
    /\ UNCHANGED lk_tor_ip
    /\ UNCHANGED outsideLookup

\* a call of get_current_ip(), tor_ip_changer.py lines 497-520
LkGetCurrentIp ==
    /\ lk_pc = "idle"
    /\ \E session \in BOOLEAN, responses \in [1..Len(ip_services) -> Responses] :
          /\ lk_responses' = (IF session THEN responses ELSE << >>)
          /\ lk_ip' = get_current_ip(session, responses, 1)
    /\ lk_call' = "get_current_ip"
    /\ lk_geo' = << >>
    /\ lk_details' = NoDetails
    /\ lk_pc' = "returned"
    /\ UNCHANGED lk_tor_ip
    /\ UNCHANGED outsideLookup

\* get_ip_details(ip) is called, lines 522-524 (simplified: 193-195), with
\* None (the default), "" or an address
LkGetIpDetails(file) ==
    /\ lk_pc = "idle"
    /\ \E ip \in { NoneValue, TextValue(<< >>),
                   TextValue(<< "1", ".", "2", ".", "3", ".", "4" >>) } :
          /\ lk_ip' = ip
          /\ lk_pc' = IF Falsy(ip) THEN "resolve" ELSE "services"
    /\ lk_call' = file
    /\ lk_responses' = << >>
    /\ lk_geo' = << >>
    /\ lk_details' = NoDetails
    /\ UNCHANGED lk_tor_ip
    /\ UNCHANGED outsideLookup

\* get_ip_details, lines 525-527 (simplified: 196-198): ip = get_current_ip(),
\* and None is returned when that gave nothing
LkDetailsResolve ==
    /\ lk_pc = "resolve"
    /\ \E session \in BOOLEAN, responses \in [1..Len(ip_services) -> Responses] :
          /\ lk_ip' = get_current_ip(session, responses, 1)
          /\ lk_pc' = IF Falsy(get_current_ip(session, responses, 1))
                      THEN "returned" ELSE "services"
    /\ UNCHANGED << lk_call, lk_responses, lk_geo, lk_details >>
    /\ UNCHANGED lk_tor_ip
    /\ UNCHANGED outsideLookup

\* get_ip_details, lines 529-572 (simplified: 200-239): the services in turn,
\* then the basic record
LkDetailsServices ==
    /\ lk_pc = "services"
    /\ \E geo \in [1..Len(geo_services) -> GeoResponses] :
          /\ lk_geo' = geo
          /\ lk_details' = GetIpDetailsFrom(lk_call, lk_ip, geo, 1)
    /\ lk_pc' = "returned"
    /\ UNCHANGED << lk_call, lk_ip, lk_responses >>
    /\ UNCHANGED lk_tor_ip
    /\ UNCHANGED outsideLookup

\* get_tor_ip(), torip_checker.py lines 49-106, from port i of backup_ports on.
\* answers[port] is what the request to api.ipify.org through that port gave:
\* "200", another status code ("status"), or an exception ("raise").  Once the
\* address is there the function returns True, whatever ipinfo.io answers
RECURSIVE get_tor_ip(_, _, _)
get_tor_ip(answers, i, tried) ==
    LET backup_ports == << 9150, 9050 >>                          \* line 57
    IN  IF i > Len(backup_ports) THEN [tried |-> tried, ret |-> FALSE]   \* line 106
        ELSE IF answers[backup_ports[i]] = "200"
             THEN [tried |-> Append(tried, backup_ports[i]), ret |-> TRUE]
             ELSE get_tor_ip(answers, i + 1, Append(tried, backup_ports[i]))

\* a call of get_tor_ip(), torip_checker.py lines 49-106
LkGetTorIp ==
    /\ lk_pc = "idle"
    /\ \E answers \in [{9050, 9150} -> {"200", "status", "raise"}] :
          lk_tor_ip' = [answers |-> answers,
                        tried |-> get_tor_ip(answers, 1, << >>).tried,
                        ret |-> get_tor_ip(answers, 1, << >>).ret]
    /\ lk_call' = "get_tor_ip"
    /\ lk_pc' = "returned"
    /\ UNCHANGED << lk_responses, lk_ip, lk_geo, lk_details >>
    /\ UNCHANGED outsideLookup

NextLookup ==
    \/ LkTorIpChangerGetCurrentIp
    \/ LkGetCurrentIp
    \/ \E file \in {"tor_ip_changer", "tor_ip_changer_simplified"} :
          LkGetIpDetails(file)
    \/ LkDetailsResolve
    \/ LkDetailsServices
    \/ LkGetTorIp

(***************************************************************************)
(* tor_ip_changer.py on its host: files and the Tor service                *)
(***************************************************************************)

\* setup_tor_password is called at most this many times
MaxSetups == 2

\* a list that names the credential file among the files to clear
cache_dirs_and_password ==
    { "/var/lib/tor/cached-certs", "/var/lib/tor/cached-descriptors",
      "/var/lib/tor/cached-descriptors.new",
      "/var/lib/tor/cached-microdesc-consensus", "/var/lib/tor/cached-microdescs",
      "/var/lib/tor/cached-microdescs.new", "/var/lib/tor/state",
      "~/.tor_password" }

\* clean_restart_tor, lines 607-615
cache_dirs ==
    { "/var/lib/tor/cached-certs", "/var/lib/tor/cached-descriptors",
      "/var/lib/tor/cached-descriptors.new",
      "/var/lib/tor/cached-microdesc-consensus", "/var/lib/tor/cached-microdescs",
      "/var/lib/tor/cached-microdescs.new", "/var/lib/tor/state" }

\* restart_tor_service(), lines 186-265, on a host h: whether it is Linux,
\* whether systemctl and /etc/init.d/tor exist, and whether the command of the
\* mechanism that is used succeeds.  tried: the mechanisms used, in order
restart_tor_service(h) ==
    IF ~h.linux THEN [ret |-> FALSE, tried |-> << >>]
    ELSE IF h.systemctl THEN [ret |-> h.ok, tried |-> << "systemctl" >>]
    ELSE IF h.initd THEN [ret |-> h.ok, tried |-> << "init.d" >>]
    ELSE [ret |-> h.ok, tried |-> << "direct" >>]

\* TOR_PASSWORD_FILE (line 56) and IP_HISTORY_FILE (line 57) are absent or were
\* written by an earlier process; the files of Tor are there or not.  The
\* content of the credential file is the number of the password in it, -1 when
\* it holds none; lines is the number of lines the file has
InitHost ==
    /\ host_pc = "idle"
    /\ host_setups = 0
    /\ host_last = "none"
    /\ host_restart = [host |-> [linux |-> TRUE, systemctl |-> TRUE, initd |-> FALSE,
                                 ok |-> TRUE],
                       result |-> [ret |-> FALSE, tried |-> << >>]]
    /\ \E pw \in BOOLEAN, hist \in BOOLEAN, tor \in BOOLEAN :
          host_files =
             [p \in cache_dirs \cup {"~/.tor_password", "~/.tor_ip_history.json"} |->
                IF \/ p = "~/.tor_password" /\ pw
                   \/ p = "~/.tor_ip_history.json" /\ hist
                   \/ p \in cache_dirs /\ tor
                THEN [exists |-> TRUE, mode |-> "owner", content |-> 0, lines |-> 4]
                ELSE [exists |-> FALSE, mode |-> "none", content |-> -1, lines |-> 0]]

ParkedHost ==
    /\ host_pc = "parked"
    /\ host_setups = 0
    /\ host_last = "none"
    /\ host_restart = [host |-> [linux |-> TRUE, systemctl |-> TRUE, initd |-> FALSE,
                                 ok |-> TRUE],
                       result |-> [ret |-> FALSE, tried |-> << >>]]
    /\ host_files = << >>

\* restart_tor_service(), lines 186-265 (it writes and removes no file)
RestartTorService ==
    /\ host_pc = "idle"
    /\ \E h \in [linux : BOOLEAN, systemctl : BOOLEAN, initd : BOOLEAN, ok : BOOLEAN] :
          host_restart' = [host |-> h, result |-> restart_tor_service(h)]
    /\ host_last' = "restart_tor_service"
    /\ UNCHANGED << host_pc, host_files, host_setups >>
    /\ UNCHANGED outsideHost

\* setup_tor_password(), lines 96-121, called by menu choice 8 after "y" (line
\* 1273) or by --configure-tor (line 1379).  Either tor --hash-password fails
\* (lines 110-112), or open(TOR_PASSWORD_FILE, 'w') creates the file with the
\* mode the umask leaves (an existing file keeps its mode) and the four lines
\* are written (the password is on the second), or a write fails and the file
\* stays as it is then
SetupTorPasswordWrite ==
    /\ host_pc = "idle"
    /\ host_setups < MaxSetups
    /\ host_setups' = host_setups + 1
    /\ host_last' = "setup_tor_password"
    /\ LET old == host_files["~/.tor_password"]
       IN  \/ UNCHANGED << host_pc, host_files >>
           \/ \E umask \in {"owner", "wide"}, written \in {0, 2, 4} :
                 /\ host_files' =
                       [host_files EXCEPT !["~/.tor_password"] =
                           [exists |-> TRUE,
                            mode |-> IF old.exists THEN old.mode ELSE umask,
                            content |-> IF written >= 2 THEN host_setups + 1 ELSE -1,
                            lines |-> written]]
                 /\ host_pc' = IF written < 4 THEN "idle" ELSE "chmod"
    /\ UNCHANGED host_restart
    /\ UNCHANGED outsideHost

\* setup_tor_password(), lines 123-129: os.chmod(TOR_PASSWORD_FILE, 0o600), or
\* the exception it raises
SetupTorPasswordChmod ==
    /\ host_pc = "chmod"
    /\ host_pc' = "idle"
    /\ \/ host_files' = [host_files EXCEPT !["~/.tor_password"].mode = "owner"]
       \/ UNCHANGED host_files
    /\ UNCHANGED << host_setups, host_last, host_restart >>
    /\ UNCHANGED outsideHost

\* clean_restart_tor(), lines 605-638: "sudo rm -f" of every path of cache_dirs
\* that exists, then Tor is started and may have written its files again
CleanRestartTorFiles ==
    /\ host_pc = "idle"
    /\ \E tor \in BOOLEAN :
          host_files' =
             [p \in DOMAIN host_files |->
                IF p \in cache_dirs
                THEN IF tor /\ p \in {"/var/lib/tor/cached-certs", "/var/lib/tor/state"}
                     THEN [exists |-> TRUE, mode |-> "owner", content |-> 0, lines |-> 4]
                     ELSE [exists |-> FALSE, mode |-> "none", content |-> -1, lines |-> 0]
                ELSE host_files[p]]
    /\ host_last' = "clean_restart_tor"
    /\ UNCHANGED << host_pc, host_setups, host_restart >>
    /\ UNCHANGED outsideHost

\* save_ip_history(), lines 288-296, called by record_ip in change_ip and in
\* monitor_ip_loop: open(IP_HISTORY_FILE, 'w') and json.dump
SaveIpHistory ==
    /\ host_pc = "idle"
    /\ \E umask \in {"owner", "wide"} :
          host_files' =
             [host_files EXCEPT !["~/.tor_ip_history.json"] =
                 [exists |-> TRUE,
                  mode |-> IF @.exists THEN @.mode ELSE umask,
                  content |-> 0, lines |-> 4]]
    /\ host_last' = "save_ip_history"
    /\ UNCHANGED << host_pc, host_setups, host_restart >>
    /\ UNCHANGED outsideHost

NextHost ==
    \/ RestartTorService
    \/ SetupTorPasswordWrite
    \/ SetupTorPasswordChmod
    \/ CleanRestartTorFiles
    \/ SaveIpHistory

(***************************************************************************)
(* Claims                                                                  *)
(***************************************************************************)

C2_AtMostOneWorker ==
    /\ Cardinality({w \in DOMAIN simp_workers : WorkerAlive(w)}) <= 1
    /\ Cardinality({w \in DOMAIN simp_workers : simp_workers[w].pc = "ci_session"}) <= 1

\* C11: in tor_ip_changer.py, whatever start_/stop_ calls the menu thread makes,
\* at most one ip_changer_loop thread is alive, at most one thread is inside
\* change_ip, and a start_ip_changer_thread call made while the previous changer
\* thread was alive returned False.
C11_OneChangerThread ==
    /\ Cardinality({t \in DOMAIN thr_changers : ThreadAlive(t)}) <= 1
    /\ Cardinality({t \in DOMAIN thr_changers : thr_changers[t].pc \in {"ci_old", "ci_session", "ci_verify"}}) <= 1
    /\ (thr_last.op = "start_changer" /\ thr_last.alive => thr_last.ret = "False")

\* a start was refused while the thread that had been asked to stop was still
\* inside change_ip
C11_Witness ==
    /\ thr_last = [op |-> "start_changer", ret |-> "False", alive |-> TRUE,
                   other |-> FALSE, stopped |-> FALSE]
    /\ thr_stop_threads
    /\ thr_changers[1].pc = "ci_verify"
    /\ thr_ip_changer_thread = 1

\* C12: the monitor thread never overwrites current_ip with an address it
\* resolved before a newer one was stored by check_current_ip / change_ip, and
\* change_ip never reports a change from such a stale old_ip when the exit
\* address was the same before and after the rotation.
C12_NoStaleOverwrite ==
    /\ ~thr_race.overwrite
    /\ ~thr_race.false_change

\* C13: run() increments change_count only when the address it resolves after
\* the signal is a known address different from the one it resolved before.
C13_CountOnlyRealChanges ==
    [][change_count' # change_count
         => (run_ip' # "Unknown" /\ run_ip' # run_ip)]_vars

\* C14: a change_ip call of tor_ip_changer.py whose signal was accepted and
\* that ended failed on a verification that resolved no address has started a
\* recovery action before giving up.
C14_UnresolvedVerificationEscalates ==
    ( /\ ci.pc = "done" /\ obs.ret = "False"
      /\ obs.sigCount >= 1
      /\ obs.resLog # << >> /\ obs.resLog[Len(obs.resLog)] = "None" )
    => obs.escLog # << >>

\* C15: in a change_ip call whose signal was accepted, clean_restart_tor is
\* started only after restart_tor_service was started in the same call.
C15_SoftRestartBeforeHardReset ==
    obs.sigCount >= 1
    => \A i \in 1..Len(obs.escLog) :
          obs.escLog[i] = "clean"
          => \E j \in 1..(i - 1) : obs.escLog[j] = "restart"

\* C16: when the ladder of change_ip has failed and the credential file exists,
\* the last strategy attempted was the password persisted in that file.
C16_PersistedCredentialTriedLast ==
    (ci.pc = "fallback" /\ obs.authFailed /\ ci.password_file)
    => ( /\ ci.authLog # << >>
         /\ ci.authLog[Len(ci.authLog)] = "password_file" )

\* C17: when every geolocation service fails, the record get_ip_details returns
\* for a non-empty address has the fields country, country_code, region, city,
\* isp, latitude, longitude, timezone and source, and each of them is "Unknown".
C17_AllFailedAllUnknown ==
    ( /\ lk_call \in {"tor_ip_changer", "tor_ip_changer_simplified"}
      /\ lk_pc = "returned"
      /\ lk_geo # << >>
      /\ \A i \in 1..Len(lk_geo) : lk_geo[i].raised \/ lk_geo[i].status_code # 200 )
    => /\ ~lk_details.none
       /\ \A f \in {"country", "country_code", "region", "city", "isp",
                    "latitude", "longitude", "timezone", "source"} :
             /\ f \in DOMAIN lk_details.dict
             /\ lk_details.dict[f] = "Unknown"

\* C18: what get_current_ip returns (TorIpChanger's and tor_ip_changer.py's) is
\* the stripped body of the first response with status 200 whose body is four
\* dot-separated decimal numbers in 0..255, and the unknown value when there is
\* no such response.
C18_ValidAddressOrUnknown ==
    LET Octet(part) ==
            /\ Len(part) \in 1..3
            /\ \A i \in 1..Len(part) : part[i] \in DecimalDigits
            /\ Len(part) = 3 =>
                  \/ part[1] \in {"0", "1"}
                  \/ part[1] = "2" /\ part[2] \in {"0", "1", "2", "3", "4"}
                  \/ part[1] = "2" /\ part[2] = "5"
                                   /\ part[3] \in {"0", "1", "2", "3", "4", "5"}
        Valid(text) ==
            /\ Len(SplitDots(text)) = 4
            /\ \A n \in 1..4 : Octet(SplitDots(text)[n])
        Good(i) ==
            /\ ~lk_responses[i].raised
            /\ lk_responses[i].status_code = 200
            /\ Valid(strip(lk_responses[i].text))
    IN  lk_call \in {"TorIpChanger.get_current_ip", "get_current_ip"}
        => IF \E i \in 1..Len(lk_responses) : Good(i)
           THEN LET k == CHOOSE i \in 1..Len(lk_responses) :
                             Good(i) /\ \A j \in 1..(i - 1) : ~Good(j)
                IN  lk_ip = TextValue(strip(lk_responses[k].text))
           ELSE lk_ip.kind \in {"Unknown", "None"}

\* C19: stop_threads is never set by a step of change_ip, and no change_ip
\* call of the changer thread ends by an exception that ends ip_changer_loop.
C19_FailureNeverStopsChanger ==
    /\ [](ci.thread = "changer" => obs.ret # "raised")
    /\ [][(~stop_threads /\ stop_threads') => ci' = ci]_vars

\* C20: the history file only grows at its end: every step leaves it as it
\* was or appends records to it.
C20_HistoryFileAppendOnly ==
    [][/\ Len(history_file') >= Len(history_file)
       /\ SubSeq(history_file', 1, Len(history_file)) = history_file]_vars

\* C3: (--change, main thread) when the address before the rotation resolves to
\* A, the first verification after an accepted signal resolves A and the next
\* resolution B, change_ip returns True with current_ip = B after exactly one
\* escalation, the soft restart, and exactly three resolutions.
C3_OneSoftRestartThreeResolutions ==
    ( /\ ci.pc = "done" /\ ci.thread = "main"
      /\ obs.sigCount = 1 /\ obs.rawCount = 0
      /\ Len(obs.resLog) >= 3
      /\ obs.resLog[1] = "A" /\ obs.resLog[2] = "A" /\ obs.resLog[3] = "B" )
    => ( /\ obs.ret = "True"
         /\ current_ip = "B"
         /\ obs.escLog = << "restart" >>
         /\ Len(obs.resLog) = 3 )

AllNone(log) == \A i \in 1..Len(log) : log[i] = "None"

\* C4: while every address resolution of a change_ip call has returned None, the
\* call has not returned True, ip_changes is what it was when the call began and
\* no history record has been appended.
C4_NoAddressNeverAChange ==
    (ci.pc # "idle" /\ AllNone(obs.resLog))
    => ( /\ obs.ret # "True"
         /\ ip_changes = obs.changes0
         /\ ip_history = obs.hist0 )

\* a call that sent its signal and resolved None before and after it has returned
C4_Witness ==
    /\ ci.pc = "done" /\ obs.sigCount = 1
    /\ Len(obs.resLog) >= 2 /\ AllNone(obs.resLog)
    /\ obs.ret = "False"

\* C5: a change_ip call in which every authentication strategy failed sends no
\* signal, starts with the soft restart and ends without an exception leaving
\* change_ip, in the main thread and in the changer thread.
C5_AuthFailureNeverRaises ==
    (ci.pc = "done" /\ obs.authFailed)
    => ( /\ obs.sigCount = 0
         /\ obs.escLog # << >> /\ obs.escLog[1] = "restart"
         /\ obs.ret # "raised" )

\* C6: the strategies are attempted in list order, each at most once, and none
\* after one succeeded; an endpoint that accepts only the cookie file at the
\* second path is authenticated after exactly the five attempts no password,
\* empty password, common password, first cookie path, second cookie path.
C6_LadderOrderFirstSuccessStops ==
    /\ Len(ci.authLog) <= Len(auth_methods)
    /\ \A i \in 1..Len(ci.authLog) : ci.authLog[i] = auth_methods[i]
    /\ \A i \in 1..(Len(ci.authLog) - 1) : ci.authLog[i] \notin ci.accepts
    /\ (ci.pc \in {"signal", "raw"}
          => Len(ci.authLog) >= 1 /\ ci.authLog[Len(ci.authLog)] \in ci.accepts)
    /\ (ci.pc \in {"signal", "raw"} /\ ci.accepts = {"cookie_var_lib"}
          => ci.authLog = << "no_password", "empty_password", "common_password",
                             "cookie_var_run", "cookie_var_lib" >>)

\* the endpoint that accepts only the second cookie path has been authenticated
C6_Witness ==
    /\ ci.pc = "signal" /\ ci.accepts = {"cookie_var_lib"}
    /\ Len(ci.authLog) = 5

\* C7: after exit_gracefully ran during the rate-limit wait of change_ip or the
\* interval wait of run, no control connection is opened.
C7_NoConnectionAfterStop == ~connAfterStop

\* C8: no recovery action is started in a change_ip call after stop_threads was
\* set during that call, and such a call does not return True.
C8_NoRecoveryAfterStop ==
    /\ ~obs.recoveryAfterStop
    /\ (ci.pc = "done" /\ obs.stopDuring => obs.ret # "True")

\* C9: a signal of the changer thread is never sent less than 10 s after the
\* previous signal.
C9_ChangerSignalsTenSecondsApart ==
    ci.thread = "changer" => obs.sigGap >= NEWNYM_MIN_GAP

\* C10: 10 <= min_interval <= max_interval in every state, run() never changes
\* either, and every interval run() draws is at least 10 s.
C10_IntervalsClamped ==
    /\ [](/\ NEWNYM_MIN_GAP <= min_interval
          /\ min_interval <= max_interval
          /\ (tpc = "run_wait" => interval >= NEWNYM_MIN_GAP))
    /\ [][min_interval' = min_interval /\ max_interval' = max_interval]_vars

\* run() is waiting out an interval it drew after a first rotation
C10_Witness ==
    /\ tpc = "run_wait" /\ change_count >= 1
    /\ interval >= NEWNYM_MIN_GAP /\ wakeAt = now + interval

\* C25: when old_ip is unknown (current_ip unset, the first resolution gave
\* nothing), a first verification that resolves an address ends change_ip with
\* True, sets current_ip to that address and adds exactly one to ip_changes.
C25_UnknownOldAddressCountsAsChange ==
    [][( /\ ci.pc = "verify" /\ ci'.pc # "verify"
         /\ ci.old_ip = "None"
         /\ obs'.resLog[Len(obs'.resLog)] # "None" )
       => ( /\ ci'.pc = "done"
            /\ obs'.ret = "True"
            /\ current_ip' = obs'.resLog[Len(obs'.resLog)]
            /\ ip_changes' = ip_changes + 1
            /\ ip_changes = obs.changes0 )]_vars

\* a call that began with no known address returned True with an address
C25_Witness ==
    /\ ci.pc = "done" /\ ci.old_ip = "None" /\ obs.ret = "True"
    /\ obs.resLog[1] = "None"
    /\ current_ip \in Addresses
    /\ ip_changes = obs.changes0 + 1

C21_ChangeIpReturns == (ci.pc = "old_ip") ~> (ci.pc = "done")

\* C27: the raw "SIGNAL NEWNYM" command is sent at most once per call and only
\* after controller.signal failed with the 514 error; the session counts as
\* signalled through it only when the reply held "250"; every other signal
\* error and every other raw reply leads to restart_tor_service, unless the
\* endpoint stops answering.
C27_RawCommandOnceAfter514 ==
    /\ [](obs.rawCount <= 1)
    /\ [](obs.rawCount = 1 => obs.sigCount <= 1)
    /\ [][/\ obs'.rawCount > obs.rawCount => (ci.pc = "raw" /\ obs.rawCount = 0)
          /\ (ci'.pc = "raw" /\ ci.pc # "raw") => ci.pc = "signal"
          /\ (ci.pc = "signal" /\ ci'.pc # "signal")
                => \/ ci'.pc = "settle" /\ obs'.sigCount = 1 /\ obs'.rawCount = 0
                   \/ ci'.pc = "raw" /\ obs' = obs
                   \/ ci'.pc = "fallback" /\ obs' = obs
                   \/ ci'.pc = "hung"
          /\ (ci.pc = "raw" /\ ci'.pc # "raw")
                => \/ ci'.pc = "settle" /\ obs'.sigCount = 1 /\ obs'.rawCount = 1
                   \/ ci'.pc = "fallback" /\ obs'.sigCount = 0 /\ obs'.rawCount = 1
                   \/ ci'.pc = "hung"
          /\ (ci.pc = "fallback" /\ ci'.pc # "fallback" /\ ci'.pc # "hung")
                => obs'.escLog = Append(obs.escLog, "restart")]_vars

\* the raw command was sent after a 514 error, its reply lacked "250", and the
\* call went on to restart_tor_service
C27_Witness ==
    /\ obs.rawCount = 1 /\ obs.sigCount = 0
    /\ obs.escLog # << >> /\ obs.escLog[1] = "restart"

\* C29: in every change_ip call the first recovery action (restart_tor_service
\* or clean_restart_tor) is started only after the call attempted the signal
\* over the control channel: in the except branch of the control session, or
\* after an accepted signal.
C29_SignalAttemptedBeforeRecovery ==
    [][(obs.escLog = << >> /\ obs'.escLog # << >>)
       => (ci.pc = "fallback" \/ obs.sigCount >= 1)]_vars

\* C30: within one change_ip call restart_tor_service runs at most once and
\* clean_restart_tor runs at most once.
C30_EachRecoveryActionOnce ==
    /\ Cardinality({i \in 1..Len(obs.escLog) : obs.escLog[i] = "restart"}) <= 1
    /\ Cardinality({i \in 1..Len(obs.escLog) : obs.escLog[i] = "clean"}) <= 1

\* C22: a time-based wait of a background loop ends within about one second of
\* the stop request: the interval wait of TorIpChanger.run during which
\* exit_gracefully ran (at the clock reading now) ends no later than one second
\* and one oversleep after it.
C22_WaitEndsWithinOneSecondOfStop ==
    [][(tpc = "run_wait" /\ ~running /\ tpc' # "run_wait")
       => now' <= now + 1 + MaxOpTime]_vars

\* C23: in every state of setup_tor_password, the states between the writing
\* and the change of mode and the states after an error included, the
\* credential file does not hold a password while its mode is wider than
\* owner-only.
C23_SecretNeverWiderThanOwner ==
    host_pc # "parked"
    => ~( /\ host_files["~/.tor_password"].exists
          /\ host_files["~/.tor_password"].content >= 0
          /\ host_files["~/.tor_password"].mode = "wide" )

\* C24: the credential file is created, rewritten or deleted by no operation
\* but setup_tor_password: not by restart_tor_service, clean_restart_tor or the
\* saving of the history that the rotations and the monitor do.
C24_CredentialFileOnlyBySetup ==
    [][(host_pc # "parked"
        /\ host_files'["~/.tor_password"] # host_files["~/.tor_password"])
       => (host_last' = "setup_tor_password"
           /\ (host_setups' = host_setups + 1 \/ host_pc = "chmod"))]_vars

\* clean_restart_tor has removed the files of Tor and left the password that
\* setup_tor_password had written
C24_Witness ==
    /\ host_last = "clean_restart_tor"
    /\ ~host_files["/var/lib/tor/state"].exists
    /\ host_setups >= 1
    /\ host_files["~/.tor_password"].exists
    /\ host_files["~/.tor_password"].content = host_setups

\* C28: restart_tor_service returns False only after every mechanism the host
\* has was used: the service manager if it exists, the init script if it
\* exists, and the direct kill-and-relaunch.
C28_RestartFallbackChain ==
    LET h == host_restart.host
        r == host_restart.result
        Tried(m) == \E i \in 1..Len(r.tried) : r.tried[i] = m
    IN  (host_last = "restart_tor_service" /\ h.linux /\ ~r.ret)
        => /\ h.systemctl => Tried("systemctl")
           /\ h.initd => Tried("init.d")
           /\ Tried("direct")

\* C31: every path of change_ip ends with an explicit outcome: True exactly
\* when a changed address was verified (and counted), False otherwise; no path
\* ends without a return value or with an exception.
C31_ExplicitOutcomeOnEveryPath ==
    ci.pc = "done"
    => /\ obs.ret \in {"True", "False"}
       /\ obs.ret = "True" <=> ip_changes = obs.changes0 + 1

\* C32: stopping one background worker leaves the other running: the monitor
\* does not end because stop_ip_changer_thread asked the changer to stop, and
\* the changer does not end because stop_ip_monitor_thread asked the monitor to.
C32_StopLeavesOtherWorkerRunning ==
    [][ /\ (thr_monitor.pc = "loop" /\ thr_monitor'.pc = "dead")
           => ~(thr_last.op = "stop_changer" /\ thr_last.ret = "True" /\ thr_last.other)
        /\ \A t \in DOMAIN thr_changers :
              (thr_changers[t].pc = "loop" /\ thr_changers'[t].pc = "dead")
              => ~(thr_last.op = "stop_monitor" /\ thr_last.ret = "True"
                   /\ thr_last.other) ]_vars

\* C33: once stop_ip_changer_thread has returned True, and until
\* start_ip_changer_thread is called again, the changer thread enters no
\* change_ip call and sends no signal, whatever the menu starts meanwhile.
C33_StoppedChangerStaysStopped ==
    [][ \A t \in DOMAIN thr_changers :
          (thr_last.stopped /\ thr_last'.stopped /\ t = thr_ip_changer_thread)
          => /\ ~(thr_changers[t].pc = "loop" /\ thr_changers'[t].pc = "ci_old")
             /\ ~(thr_changers[t].pc = "ci_session"
                  /\ thr_changers'[t].pc = "ci_verify") ]_vars

\* C34: with the changer and the monitor both running, an address change
\* produced by a rotation is appended to ip_history once: the history never
\* holds two records of the same single change.
C34_EachChangeRecordedOnce ==
    thr_race.records <= 1

C36_PortsChosenOnceByEnsure ==
    /\ [](ensured.ret = "True"
          => /\ << socks_port, control_port >>
                  \in { << DEFAULT_SYS_SOCKS_PORT, DEFAULT_SYS_CTRL_PORT >>,
                        << DEFAULT_USER_SOCKS_PORT, DEFAULT_USER_CTRL_PORT >> }
             /\ tor_proxy = socks_port
             /\ (socks_port = DEFAULT_SYS_SOCKS_PORT => ensured.verified))
    /\ [][ensured.ret = "True"
           => UNCHANGED << socks_port, control_port, tor_proxy, ensured >>]_vars

\* ensure_tor_running launched the local instance and returned True, and run()
\* has sent a signal and is waiting again
C36_Witness ==
    /\ ensured.ret = "True"
    /\ socks_port = DEFAULT_USER_SOCKS_PORT
    /\ tor_proxy = DEFAULT_USER_SOCKS_PORT
    /\ change_count >= 1
    /\ tpc = "run_wait"

\* C37: whenever run() has returned, a user-space Tor process that the object
\* launched is no longer running, the return taken when the ports of the
\* launched process never opened included.
C37_NoLaunchedProcessLeftRunning ==
    (tmode = "run" /\ tpc = "exited") => tor_proc # "running"

\* C38: get_tor_ip uses the system proxy port 9050 first and the user-space
\* port 9150 only when the request through 9050 failed; it returns False only
\* after both ports failed.
C38_SystemPortFirst ==
    lk_call = "get_tor_ip"
    => /\ lk_tor_ip.tried[1] = 9050
       /\ (\E i \in 1..Len(lk_tor_ip.tried) : lk_tor_ip.tried[i] = 9150)
             => lk_tor_ip.answers[9050] # "200"
       /\ ~lk_tor_ip.ret
             => /\ Len(lk_tor_ip.tried) = 2
                /\ lk_tor_ip.answers[9050] # "200"
                /\ lk_tor_ip.answers[9150] # "200"

(***************************************************************************)
(* Specifications                                                          *)
(***************************************************************************)
Init ==
    InitSuite /\ ParkedChanger /\ ParkedSimplified /\ ParkedThreads /\ ParkedLookup
    /\ ParkedHost

Spec == Init /\ [][Next]_vars

\* every step of change_ip that can be taken is taken in the end; a call that
\* does not answer is under no such obligation
FairSpec ==
    /\ Init
    /\ [][Next]_vars
    /\ WF_vars(CiOldIp \/ CiIsRunning \/ CiRestart0 \/ CiIsRunning2 \/ CiConnect
                 \/ CiAuth \/ CiSignal \/ CiRaw \/ CiFallback \/ CleanStop
                 \/ CleanRun \/ CiSettle \/ CiVerify \/ CiVerify2)

InitOfChanger ==
    InitChanger /\ ParkedSuite /\ ParkedSimplified /\ ParkedThreads /\ ParkedLookup
    /\ ParkedHost

SpecChanger == InitOfChanger /\ [][NextChanger]_vars

InitOfSimplified ==
    InitSimplified /\ ParkedChanger /\ ParkedSuite /\ ParkedThreads /\ ParkedLookup
    /\ ParkedHost

InitOfThreads ==
    InitThreads /\ ParkedChanger /\ ParkedSuite /\ ParkedSimplified /\ ParkedLookup
    /\ ParkedHost

SpecSimplified == InitOfSimplified /\ [][NextSimplified]_vars

SpecThreads == InitOfThreads /\ [][NextThreads]_vars

InitOfLookup ==
    InitLookup /\ ParkedChanger /\ ParkedSuite /\ ParkedSimplified /\ ParkedThreads
    /\ ParkedHost

SpecLookup == InitOfLookup /\ [][NextLookup]_vars

InitOfHost ==
    InitHost /\ ParkedChanger /\ ParkedSuite /\ ParkedSimplified /\ ParkedThreads
    /\ ParkedLookup

SpecHost == InitOfHost /\ [][NextHost]_vars

\* the background loops of tor_ip_changer.py, or torip_changer.py as its main
\* block runs it (lines 504-510): TorIpChanger(), min_interval = 5 and
\* max_interval = 10, then changer.run()
InitOfLoops ==
    \/ InitOfThreads
    \/ /\ InitOfChanger
       /\ min_interval = ClampMin(5)
       /\ max_interval = ClampMax(ClampMin(5), 10)
       /\ socks_port = DEFAULT_SYS_SOCKS_PORT
       /\ control_port = DEFAULT_SYS_CTRL_PORT

\* the exit address stays what it was at the start: which addresses Tor gives
\* decides no loop condition
NextLoops ==
    \/ thr_last.op # "parked" /\ NextThreads /\ thr_exit_ip' = thr_exit_ip
    \/ /\ thr_last.op = "parked"
       /\ \/ CallRun \/ ExitGracefully \/ RunEnsure \/ RunInitialIp \/ RunLoop
          \/ RunExit \/ RunWake \/ RunSettle \/ ChangeIpBegin \/ ChangeIpWake
          \/ ChangeIpConnect \/ ChangeIpAuth \/ ChangeIpAuthCookie \/ ChangeIpSignal

\* every thread that can take a step takes one in the end: the changer thread
\* (start_ip_changer_thread starts one only when the one before has ended), the
\* monitor thread and the thread inside run(); the menu and the signals are free
FairLoops ==
    /\ InitOfLoops
    /\ [][NextLoops]_vars
    /\ WF_vars(/\ thr_last.op # "parked"
               /\ \E t \in ChangerIds :
                     \/ ThrLoopInitialIp(t) \/ ThrLoop(t) \/ ThrCiOldIp(t)
                     \/ ThrCiSession(t) \/ ThrCiVerify(t) \/ ThrWait(t)
               /\ thr_exit_ip' = thr_exit_ip)
    /\ WF_vars(/\ thr_last.op # "parked"
               /\ MonFirst \/ MonPublish \/ MonLoop \/ MonResolve \/ MonCompare)
    /\ WF_vars(/\ thr_last.op = "parked"
               /\ tmode = "run"
               /\ \/ ChangeIpBegin \/ ChangeIpWake \/ ChangeIpConnect \/ ChangeIpAuth
                  \/ ChangeIpAuthCookie \/ ChangeIpSignal \/ RunEnsure \/ RunInitialIp
                  \/ RunLoop \/ RunExit \/ RunWake \/ RunSettle)

====
